---------------------------- MODULE Spec2Model ----------------------------
(***************************************************************************)
(* cc-forever: the MCP memory server (store / retrieve / get_stats /      *)
(* delete), its Embedder and VectorStore wrappers, the chunker and the    *)
(* auto-index process, as one state machine.                              *)
(*                                                                         *)
(* JavaScript runs each handler to its next await without interruption,   *)
(* so one action of this module is one such segment: the code between two *)
(* awaits of one request (or of one auto-index process).  Strings are     *)
(* sequences of one-character strings.                                    *)
(***************************************************************************)
EXTENDS Integers, Sequences, FiniteSets, TLC

\* ------------------------------------------------------------------ bounds
\* number of tool requests the host sends to the server process
NumReq == 2
\* number of auto-index processes the Stop hook spawns
NumAuto == 1
\* the millisecond clock takes the values 0 .. MaxClock
MaxClock == 1
\* number of backend failures (model load, inference, LanceDB call) injected
MaxFaults == 1

\* --------------------------------------------------------- program constants
QuestionMax == 200
MaxContentLength == 100000
MaxQueryLength == 10000
MaxAnswerLength == 2000

\* ------------------------------------------------------------------ strings
WS == {" ", "\t", "\n", "\r"}

RECURSIVE TrimStart(_)
TrimStart(s) ==
  IF s # <<>> /\ Head(s) \in WS THEN TrimStart(Tail(s)) ELSE s

RECURSIVE TrimEnd(_)
TrimEnd(s) ==
  IF s # <<>> /\ s[Len(s)] \in WS THEN TrimEnd(SubSeq(s, 1, Len(s) - 1)) ELSE s

\* String.prototype.trim
Trim(s) == TrimEnd(TrimStart(s))

\* String.prototype.slice(0, n)
Slice0(s, n) == IF Len(s) <= n THEN s ELSE SubSeq(s, 1, n)

\* String.prototype.includes
Includes(s, sub) ==
  \E i \in 0..(Len(s) - Len(sub)) : SubSeq(s, i + 1, i + Len(sub)) = sub

\* n times the character c
RECURSIVE Repeat(_, _)
Repeat(c, n) ==
  IF n = 0 THEN <<>>
  ELSE IF n % 2 = 1 THEN <<c>> \o Repeat(c, n - 1)
  ELSE Repeat(c, n \div 2) \o Repeat(c, n \div 2)

\* Array.prototype.join(sep) over an array of strings
RECURSIVE Join(_, _)
Join(parts, sep) ==
  IF parts = <<>> THEN <<>>
  ELSE IF Len(parts) = 1 THEN parts[1]
  ELSE parts[1] \o sep \o Join(Tail(parts), sep)

\* String.prototype.split('\n')
RECURSIVE SplitLines(_)
SplitLines(s) ==
  IF \A i \in 1..Len(s) : s[i] # "\n" THEN <<s>>
  ELSE LET k == CHOOSE i \in 1..Len(s) :
                  s[i] = "\n" /\ \A j \in 1..(i - 1) : s[j] # "\n"
       IN <<SubSeq(s, 1, k - 1)>> \o SplitLines(SubSeq(s, k + 1, Len(s)))

\* case folding of the letters the role labels are written with
Lower(c) ==
  CASE c = "H" -> "h" [] c = "U" -> "u" [] c = "M" -> "m" [] c = "A" -> "a"
    [] c = "N" -> "n" [] c = "S" -> "s" [] c = "E" -> "e" [] c = "R" -> "r"
    [] c = "I" -> "i" [] c = "T" -> "t" [] c = "C" -> "c" [] c = "L" -> "l"
    [] c = "D" -> "d" [] c = "F" -> "f" [] OTHER -> c

LowerStr(s) == [i \in 1..Len(s) |-> Lower(s[i])]

HumanLabels == { <<"h","u","m","a","n">>, <<"u","s","e","r">> }
AssistantLabels == { <<"a","s","s","i","s","t","a","n","t">>, <<"c","l","a","u","d","e">> }

\* rolePattern = /^(Human|User|Assistant|Claude):\s*/i ; the label a line
\* starts with, or <<>> when the pattern does not match
RoleLabel(line) ==
  LET hits == { w \in HumanLabels \cup AssistantLabels :
                  /\ Len(line) >= Len(w) + 1
                  /\ LowerStr(SubSeq(line, 1, Len(w))) = w
                  /\ line[Len(w) + 1] = ":" }
  IN IF hits = {} THEN <<>> ELSE CHOOSE w \in hits : TRUE

\* line.slice(match[0].length): the text after the label, the colon and the
\* white space that follows it
TextAfterRole(line) ==
  TrimStart(SubSeq(line, Len(RoleLabel(line)) + 2, Len(line)))

HumanPrefix == <<"H","u","m","a","n",":"," ">>
AssistantPrefix == <<"\n","A","s","s","i","s","t","a","n","t",":"," ">>

\* a chunk whose text holds the question cut as the question field is
MakeChunkCut(q, a) ==
  [ text |-> HumanPrefix \o Slice0(q, QuestionMax) \o AssistantPrefix \o a,
    question |-> Slice0(q, QuestionMax) ]

\* `Human: ${q}\nAssistant: ${a}` with question q.slice(0, 200)
MakeChunk(q, a) ==
  [ text |-> HumanPrefix \o q \o AssistantPrefix \o a,
    question |-> Slice0(q, QuestionMax) ]

\* ------------------------------------------------------------------ chunker
\* the "save previous content" block run at a role marker and, in its
\* assistant half, once more at the end of the input
FlushAssistant(st) ==
  IF st.role = "assistant" /\ st.q # <<>> /\ st.cur # <<>>
  THEN LET answer == Trim(Join(st.cur, <<"\n">>))
       IN IF answer # <<>>
          THEN Append(st.chunks, MakeChunk(st.q, answer))
          ELSE st.chunks
  ELSE st.chunks

\* a role transition that keeps the pending question after it emitted a chunk
ChunkStepKeeps(st, line) ==
  IF RoleLabel(line) # <<>>
  THEN LET newRole == IF RoleLabel(line) \in HumanLabels THEN "human" ELSE "assistant"
           after == TextAfterRole(line)
           q1 == IF st.role = "human" /\ st.cur # <<>>
                 THEN Trim(Join(st.cur, <<"\n">>))
                 ELSE st.q
       IN [ role |-> newRole,
            cur |-> IF after # <<>> THEN <<after>> ELSE <<>>,
            q |-> q1,
            chunks |-> IF st.role = "human" /\ st.cur # <<>>
                       THEN st.chunks ELSE FlushAssistant(st) ]
  ELSE IF st.role # "none"
  THEN [st EXCEPT !.cur = Append(st.cur, line)]
  ELSE st

ChunkStep(st, line) ==
  IF RoleLabel(line) # <<>>
  THEN LET newRole == IF RoleLabel(line) \in HumanLabels THEN "human" ELSE "assistant"
           after == TextAfterRole(line)
           q1 == IF st.role = "human" /\ st.cur # <<>>
                 THEN Trim(Join(st.cur, <<"\n">>))
                 ELSE IF st.role = "assistant" /\ st.q # <<>> /\ st.cur # <<>>
                 THEN <<>>
                 ELSE st.q
       IN [ role |-> newRole,
            cur |-> IF after # <<>> THEN <<after>> ELSE <<>>,
            q |-> q1,
            chunks |-> IF st.role = "human" /\ st.cur # <<>>
                       THEN st.chunks ELSE FlushAssistant(st) ]
  ELSE IF st.role # "none"
  THEN [st EXCEPT !.cur = Append(st.cur, line)]
  ELSE st

RECURSIVE ChunkLoop(_, _)
ChunkLoop(st, lines) ==
  IF lines = <<>> THEN st ELSE ChunkLoop(ChunkStep(st, Head(lines)), Tail(lines))

\* a chunker without the block that handles the last pair
chunkConversationUnflushed(content) ==
  ChunkLoop([role |-> "none", cur |-> <<>>, q |-> <<>>, chunks |-> <<>>],
            SplitLines(content)).chunks

chunkConversation(content) ==
  FlushAssistant(ChunkLoop([role |-> "none", cur |-> <<>>, q |-> <<>>, chunks |-> <<>>],
                           SplitLines(content)))

\* ------------------------------------------------------- ids and timestamps
Digit(n) == <<"0","1","2","3","4","5","6","7","8","9">>[n + 1]

\* decimal rendering of a natural number
RECURSIVE Dec(_)
Dec(n) == IF n < 10 THEN <<Digit(n)>> ELSE Dec(n \div 10) \o <<Digit(n % 10)>>

\* new Date().toISOString(): fixed width, ordered as the clock is
ToISOString(t) == <<"T">> \o Dec(t)

\* `${timestamp}-${i}`
StoreId(timestamp, i) == timestamp \o <<"-">> \o Dec(i)

\* `${sessionId}-${Date.now()}`
AutoId(sessionId, t) == sessionId \o <<"-">> \o Dec(t)

CharOrd(c) ==
  CASE c = "-" -> 1 [] c = "0" -> 2 [] c = "1" -> 3 [] c = "2" -> 4 [] c = "3" -> 5
    [] c = "4" -> 6 [] c = "5" -> 7 [] c = "6" -> 8 [] c = "7" -> 9 [] c = "8" -> 10
    [] c = "9" -> 11 [] c = "T" -> 12 [] OTHER -> 13

\* string comparison a < b of the filter expression
RECURSIVE LexLess(_, _)
LexLess(a, b) ==
  IF b = <<>> THEN FALSE
  ELSE IF a = <<>> THEN TRUE
  ELSE IF Head(a) = Head(b) THEN LexLess(Tail(a), Tail(b))
  ELSE CharOrd(Head(a)) < CharOrd(Head(b))

\* ------------------------------------------------------------ tool results
NoResult == [tag |-> "none"]

Failure(err) == [tag |-> "result", success |-> FALSE, error |-> err]

\* what the host receives when a handler lets an exception escape
Escaped(err) == [tag |-> "exception", error |-> err]

\* the catch of the CallToolRequestSchema handler
HandlerCatch(err) == Failure(<<"Tool execution failed: ">> \o err)

\* a deleteMemory whose catch lets the error of the store go on
DeleteCatchRethrows(err) == Escaped(<<"Failed to delete memories: ">> \o err)

\* the catch of deleteMemory
DeleteCatch(err) == Failure(<<"Failed to delete memories: ">> \o err)

\* ------------------------------------------------ embedding backend, search
\* The feature-extraction pipeline (mean pooling, normalised) is a black
\* box that is deterministic in its input; it is modelled by the set of
\* topic letters the text mentions.  Distances, similarities and thresholds
\* are numbers of 1/Unit, one decimal place more than the scores of a result
\* keep.
Topics == {"x", "y", "z"}

\* the factor of Math.round((1 - r.score) * 10000) / 10000
RoundScale == 10000
Unit == RoundScale * 10

ModelCall(text) == { text[i] : i \in 1..Len(text) } \cap Topics

\* dot-product distance of two normalised vectors
Distance(u, v) ==
  IF u \cup v = {} THEN Unit
  ELSE Unit - (Unit * Cardinality(u \cap v)) \div Cardinality(u \cup v)

\* rows nearest first, rows at the same distance in table order
RECURSIVE Nearest(_, _)
Nearest(rs, qv) ==
  IF rs = <<>> THEN <<>>
  ELSE LET k == CHOOSE i \in 1..Len(rs) :
                  \A j \in 1..Len(rs) :
                     \/ Distance(qv, rs[i].doc.vector) < Distance(qv, rs[j].doc.vector)
                     \/ /\ Distance(qv, rs[i].doc.vector) = Distance(qv, rs[j].doc.vector)
                        /\ i <= j
       IN <<rs[k]>> \o Nearest([i \in 1..(Len(rs) - 1) |-> IF i < k THEN rs[i] ELSE rs[i + 1]], qv)

\* table.vectorSearch(q).distanceType('dot').limit(limit).toArray(), mapped
\* to SearchResult
VectorSearch(rs, qv, limit) ==
  LET near == Nearest(rs, qv)
      hits == SubSeq(near, 1, IF Len(near) < limit THEN Len(near) ELSE limit)
  IN [i \in 1..Len(hits) |->
        [ id |-> hits[i].doc.id, text |-> hits[i].doc.text,
          question |-> hits[i].doc.question,
          score |-> Distance(qv, hits[i].doc.vector),
          project |-> hits[i].doc.project, tags |-> hits[i].doc.tags,
          timestamp |-> hits[i].doc.timestamp ]]

\* ------------------------------------------------------ delete predicates
\* a value interpolated as it is
EscapeQuotesNone(s) == s

\* value.replace(/'/g, "''")
RECURSIVE EscapeQuotes(_)
EscapeQuotes(s) ==
  IF s = <<>> THEN <<>>
  ELSE IF Head(s) = "'" THEN <<"'", "'">> \o EscapeQuotes(Tail(s))
  ELSE <<Head(s)>> \o EscapeQuotes(Tail(s))

\* `'${escaped}'`
Quoted(value) == <<"'">> \o EscapeQuotes(value) \o <<"'">>

\* `id IN (${escapedIds})`, the ids joined by ', '
IdsPredicate(ids) ==
  <<"i","d"," ","I","N"," ","(">>
    \o Join([i \in 1..Len(ids) |-> Quoted(ids[i])], <<",", " ">>) \o <<")">>

\* `project = '${escapedProject}'`
ProjectPredicate(project) ==
  <<"p","r","o","j","e","c","t"," ","="," ">> \o Quoted(project)

\* `timestamp < '${escapedBefore}'`
BeforePredicate(before) ==
  <<"t","i","m","e","s","t","a","m","p"," ","<"," ">> \o Quoted(before)

NoPredicate == <<>>

\* The filter expression as the table reads it: comparisons of a column
\* with string literals, joined by OR.  A literal starts and ends with a
\* quote, and two quotes inside it stand for one.
\* s starts with the characters of p
StartsWith(s, p) == Len(s) >= Len(p) /\ SubSeq(s, 1, Len(p)) = p
Drop(s, n) == SubSeq(s, n + 1, Len(s))

Unread == [ok |-> FALSE, value |-> <<>>, rest |-> <<>>]

\* the literal whose opening quote has been read, acc its value so far
RECURSIVE ReadQuoted(_, _)
ReadQuoted(s, acc) ==
  IF s = <<>> THEN Unread
  ELSE IF s[1] # "'" THEN ReadQuoted(Tail(s), Append(acc, s[1]))
  ELSE IF Len(s) >= 2 /\ s[2] = "'" THEN ReadQuoted(Drop(s, 2), Append(acc, "'"))
  ELSE [ok |-> TRUE, value |-> acc, rest |-> Tail(s)]

ReadLiteral(s) ==
  IF s # <<>> /\ s[1] = "'" THEN ReadQuoted(Tail(s), <<>>) ELSE Unread

\* the literals of a list up to its closing bracket, acc those read so far
RECURSIVE ReadList(_, _)
ReadList(s, acc) ==
  LET l == ReadLiteral(s)
  IN IF ~l.ok THEN Unread
     ELSE IF StartsWith(l.rest, <<")">>)
     THEN [ok |-> TRUE, value |-> acc \cup {l.value}, rest |-> Drop(l.rest, 1)]
     ELSE IF StartsWith(l.rest, <<",", " ">>)
     THEN ReadList(Drop(l.rest, 2), acc \cup {l.value})
     ELSE Unread

Columns == { <<"i","d">>, <<"p","r","o","j","e","c","t">>,
             <<"t","i","m","e","s","t","a","m","p">> }

NoTerm == [ok |-> FALSE, column |-> <<>>, op |-> "", value |-> <<>>, rest |-> <<>>]

\* one comparison: column = literal, column < literal, column IN (literals)
ReadTerm(s) ==
  LET cs == { c \in Columns : StartsWith(s, c \o <<" ">>) }
  IN IF cs = {} THEN NoTerm
     ELSE LET c == CHOOSE x \in cs : TRUE
              t == Drop(s, Len(c) + 1)
          IN IF StartsWith(t, <<"=", " ">>)
             THEN LET l == ReadLiteral(Drop(t, 2))
                  IN [ok |-> l.ok, column |-> c, op |-> "=", value |-> l.value,
                      rest |-> l.rest]
             ELSE IF StartsWith(t, <<"<", " ">>)
             THEN LET l == ReadLiteral(Drop(t, 2))
                  IN [ok |-> l.ok, column |-> c, op |-> "<", value |-> l.value,
                      rest |-> l.rest]
             ELSE IF StartsWith(t, <<"I", "N", " ", "(">>)
             THEN LET l == ReadList(Drop(t, 4), {})
                  IN [ok |-> l.ok, column |-> c, op |-> "IN", value |-> l.value,
                      rest |-> l.rest]
             ELSE NoTerm

\* the comparisons of an expression; ok is false when it is not well formed
RECURSIVE ParsePredicate(_)
ParsePredicate(s) ==
  LET t == ReadTerm(s)
  IN IF ~t.ok THEN [ok |-> FALSE, terms |-> {}]
     ELSE IF t.rest = <<>> THEN [ok |-> TRUE, terms |-> {t}]
     ELSE IF StartsWith(t.rest, <<" ", "O", "R", " ">>)
     THEN LET more == ParsePredicate(Drop(t.rest, 4))
          IN [ok |-> more.ok, terms |-> more.terms \cup {t}]
     ELSE [ok |-> FALSE, terms |-> {}]

WellFormed(pred) == ParsePredicate(pred).ok

ColumnOf(doc, c) ==
  IF c = <<"i","d">> THEN doc.id
  ELSE IF c = <<"p","r","o","j","e","c","t">> THEN doc.project
  ELSE doc.timestamp

Holds(t, doc) ==
  CASE t.op = "=" -> ColumnOf(doc, t.column) = t.value
    [] t.op = "<" -> LexLess(ColumnOf(doc, t.column), t.value)
    [] OTHER -> ColumnOf(doc, t.column) \in t.value

\* whether a row satisfies a filter expression
Matches(pred, doc) ==
  LET p == ParsePredicate(pred)
  IN p.ok /\ \E t \in p.terms : Holds(t, doc)

\* a delete that blanks the text of the matching rows and removes none
RECURSIVE TableDeleteBlanks(_, _)
TableDeleteBlanks(rs, pred) ==
  IF rs = <<>> THEN <<>>
  ELSE IF Matches(pred, Head(rs).doc)
  THEN <<[Head(rs) EXCEPT !.doc.text = <<>>]>> \o TableDeleteBlanks(Tail(rs), pred)
  ELSE <<Head(rs)>> \o TableDeleteBlanks(Tail(rs), pred)

\* table.delete(predicate)
RECURSIVE TableDelete(_, _)
TableDelete(rs, pred) ==
  IF rs = <<>> THEN <<>>
  ELSE IF Matches(pred, Head(rs).doc) THEN TableDelete(Tail(rs), pred)
  ELSE <<Head(rs)>> \o TableDelete(Tail(rs), pred)

\* which branch of deleteMemory runs: all > ids > project > before
DeleteBranch(a) ==
  IF a.all THEN "all"
  ELSE IF a.ids.def /\ Len(a.ids.val) > 0 THEN "ids"
  ELSE IF a.project # <<>> THEN "project"
  ELSE IF a.before # <<>> THEN "before"
  ELSE "nothing"

\* the validation of deleteMemory: !ids && !project && !before && !all
DeleteInvalid(a) ==
  ~a.ids.def /\ a.project = <<>> /\ a.before = <<>> /\ ~a.all

DeletePredicate(a) ==
  CASE DeleteBranch(a) = "ids" -> IdsPredicate(a.ids.val)
    [] DeleteBranch(a) = "project" -> ProjectPredicate(a.project)
    [] DeleteBranch(a) = "before" -> BeforePredicate(a.before)
    [] OTHER -> NoPredicate

\* ------------------------------------------------------------ store_memory
\* chunk ? chunkConversation(content) : [{text: content, question: ...}]
StoreChunks(a) ==
  IF a.chunk THEN chunkConversation(a.content)
  ELSE <<[text |-> a.content, question |-> Slice0(a.content, QuestionMax)]>>

DefaultProject == <<"d","e","f","a","u","l","t">>
DefaultTags == <<"c","o","n","v","e","r","s","a","t","i","o","n">>

\* the document with an id that counts the chunks from 1
StoreDocumentFromOne(timestamp, i, c, vector, a) ==
  [ id |-> StoreId(timestamp, i + 1),
    text |-> c.text,
    question |-> c.question,
    vector |-> vector,
    project |-> IF a.project # <<>> THEN a.project ELSE DefaultProject,
    tags |-> IF Join(a.tags, <<",">>) # <<>> THEN Join(a.tags, <<",">>) ELSE DefaultTags,
    timestamp |-> timestamp ]

\* the document pushed for chunk i (0-based) of a store call
StoreDocument(timestamp, i, c, vector, a) ==
  [ id |-> StoreId(timestamp, i),
    text |-> c.text,
    question |-> c.question,
    vector |-> vector,
    project |-> IF a.project # <<>> THEN a.project ELSE DefaultProject,
    tags |-> IF Join(a.tags, <<",">>) # <<>> THEN Join(a.tags, <<",">>) ELSE DefaultTags,
    timestamp |-> timestamp ]

\* ---------------------------------------------------------- retrieve_memory
Min(a, b) == IF a < b THEN a ELSE b
Max(a, b) == IF a > b THEN a ELSE b

\* Math.min(Math.max(n_results, 1), 100)
ClampResults(n) == Min(Max(n, 1), 100)

\* Math.max(0, Math.min(threshold, 1))
ClampThreshold(t) == Max(0, Min(t, Unit))

\* 1 - r.score
Similarity(score) == Unit - score

\* a score that is the similarity as it is
RoundScoreExact(sim) == sim

\* Math.round(sim * 10000) / 10000: to the nearest 1/10000, a half upwards
RoundScore(sim) ==
  ((sim * RoundScale + Unit \div 2) \div Unit) * (Unit \div RoundScale)

\* a filter that drops the results whose similarity is above the threshold
RECURSIVE FilterResultsBelow(_, _, _)
FilterResultsBelow(results, threshold, project) ==
  IF results = <<>> THEN <<>>
  ELSE LET r == Head(results)
           keep == /\ ~(Similarity(r.score) > threshold)
                   /\ ~(project # <<>> /\ r.project # project)
       IN (IF keep THEN <<r>> ELSE <<>>)
            \o FilterResultsBelow(Tail(results), threshold, project)

\* results.filter(...): similarity = 1 - r.score, threshold and project
RECURSIVE FilterResults(_, _, _)
FilterResults(results, threshold, project) ==
  IF results = <<>> THEN <<>>
  ELSE LET r == Head(results)
           keep == /\ ~(Similarity(r.score) < threshold)
                   /\ ~(project # <<>> /\ r.project # project)
       IN (IF keep THEN <<r>> ELSE <<>>) \o FilterResults(Tail(results), threshold, project)

\* .slice(0, n_results).map(...)
FormatResults(results, a) ==
  LET kept == FilterResults(results, ClampThreshold(a.threshold), a.project)
      cut == SubSeq(kept, 1, Min(Len(kept), ClampResults(a.n_results)))
  IN [i \in 1..Len(cut) |->
        [ id |-> cut[i].id, score |-> RoundScore(Similarity(cut[i].score)),
          question |-> cut[i].question, text |-> cut[i].text,
          timestamp |-> cut[i].timestamp, project |-> cut[i].project,
          tags |-> cut[i].tags ]]

\* a search for as many candidates as results are wanted
SearchLimitSame(n_results) == n_results

\* the limit retrieveMemory gives to search: n_results * 2
SearchLimit(n_results) == n_results * 2

\* --------------------------------------------------------- result payloads
StoreOk(n, timestamp) ==
  [tag |-> "result", success |-> TRUE, chunks_stored |-> n, timestamp |-> timestamp]

RetrieveOk(formatted, query) ==
  [tag |-> "result", results |-> formatted, query |-> query,
   total_found |-> Len(formatted)]

StatsOk(n) == [tag |-> "result", success |-> TRUE, total_chunks |-> n]

DeleteOk(n, a) ==
  [tag |-> "result", success |-> TRUE, deleted_count |-> n,
   criteria |-> [ids |-> a.ids, project |-> a.project, before |-> a.before, all |-> a.all]]

\* ------------------------------------------------------------- the inputs
Newline == <<"\n">>
ProjectX == <<"x">>

\* two complete exchanges, one exchange, no role marker, white space only
ContentTwo ==
  HumanPrefix \o <<"x">> \o AssistantPrefix \o <<"y">> \o Newline
    \o HumanPrefix \o <<"z">> \o AssistantPrefix \o <<"y">>
ContentOne == HumanPrefix \o <<"x">> \o AssistantPrefix \o <<"z">>
ContentPlain == <<"x", "y">>
ContentBlank == <<" ">>

NoIds == [def |-> FALSE, val |-> <<>>]
SomeIds(ids) == [def |-> TRUE, val |-> ids]

NoArgs ==
  [ content |-> <<>>, project |-> <<>>, tags |-> <<>>, chunk |-> TRUE,
    query |-> <<>>, n_results |-> 5, threshold |-> (3 * Unit) \div 10,
    ids |-> NoIds, before |-> <<>>, all |-> FALSE ]

Call(tool, args) == [tool |-> tool, args |-> args]

StoreCalls ==
  { Call("store_memory", [NoArgs EXCEPT !.content = ContentTwo]),
    Call("store_memory", [NoArgs EXCEPT !.content = ContentOne, !.project = ProjectX,
                                        !.tags = << <<"a">>, <<"b">> >>]),
    Call("store_memory", [NoArgs EXCEPT !.content = ContentPlain, !.chunk = FALSE]),
    Call("store_memory", [NoArgs EXCEPT !.content = ContentPlain]),
    Call("store_memory", [NoArgs EXCEPT !.content = ContentBlank]) }

RetrieveCalls ==
  { Call("retrieve_memory", [NoArgs EXCEPT !.query = <<"x">>, !.threshold = 0]) }

\* the id of the first record of a store call made at time 0, which a
\* caller can name whether or not the record exists
FirstId == StoreId(ToISOString(0), 0)

\* the ids a caller can name: those of the rows now in the table
KnownIds(rs) == { rs[i].doc.id : i \in 1..Len(rs) }

DeleteCalls(rs) ==
  { Call("delete_memory", NoArgs),
    Call("delete_memory", [NoArgs EXCEPT !.all = TRUE, !.project = ProjectX]),
    Call("delete_memory", [NoArgs EXCEPT !.ids = SomeIds(<<>>)]),
    Call("delete_memory", [NoArgs EXCEPT !.project = ProjectX]),
    Call("delete_memory", [NoArgs EXCEPT !.before = ToISOString(1)]) }
  \cup { Call("delete_memory", [NoArgs EXCEPT !.ids = SomeIds(<<x>>)]) :
            x \in KnownIds(rs) \cup {FirstId} }

ToolCalls(rs) ==
  StoreCalls \cup RetrieveCalls \cup DeleteCalls(rs)
    \cup { Call("get_stats", NoArgs), Call("list_memory", NoArgs) }

\* the calls of the runs in which the initialization, two requests and an
\* auto-index process interleave: a selection of ToolCalls that keeps every
\* tool and, of store and delete, the calls that write or remove rows
ConcurrentCalls(rs) ==
  { c \in ToolCalls(rs) :
      CASE c.tool = "store_memory" -> c.args.content = ContentTwo \/ c.args.project # <<>>
                                        \/ ~c.args.chunk
        [] c.tool = "delete_memory" ->
             \/ c.args.all
             \/ /\ c.args.ids.def
                /\ \A i \in 1..Len(c.args.ids.val) : c.args.ids.val[i] \in KnownIds(rs)
        [] OTHER -> TRUE }

\* ================================================== configuration (config.ts)
\* A JavaScript object is a set of <<key, value>> pairs with one pair for a
\* key.  A value is a boolean, a number, a string or an object of such
\* values; text holds a string (or the digits of a number), flag a boolean,
\* members the pairs of an object.
Bool(b) == [kind |-> "boolean", text |-> <<>>, flag |-> b, members |-> {}]
Str(s) == [kind |-> "string", text |-> s, flag |-> FALSE, members |-> {}]
Num(s) == [kind |-> "number", text |-> s, flag |-> FALSE, members |-> {}]
Obj(ms) == [kind |-> "object", text |-> <<>>, flag |-> FALSE, members |-> ms]

Has(obj, key) == \E p \in obj : p[1] = key
Get(obj, key) == (CHOOSE p \in obj : p[1] = key)[2]
\* obj[key] = value
Set(obj, key, value) == { p \in obj : p[1] # key } \cup { <<key, value>> }
Keys(obj) == { p[1] : p \in obj }

\* JavaScript's truthiness of a value
Truthy(v) ==
  CASE v.kind = "boolean" -> v.flag
    [] v.kind = "string" -> v.text # <<>>
    [] v.kind = "number" -> v.text # <<"0">>
    [] OTHER -> TRUE

Digits == { Digit(n) : n \in 0..9 }
Quotes == { "\"", "'" }

\* parseInt of a string of digits, as its decimal rendering
RECURSIVE ParseInt(_)
ParseInt(s) == IF Len(s) > 1 /\ Head(s) = "0" THEN ParseInt(Tail(s)) ELSE s

\* value.replace(/^["']|["']$/g, '')
Unquote(s) ==
  LET a == IF s # <<>> /\ Head(s) \in Quotes THEN Tail(s) ELSE s
  IN IF a # <<>> /\ a[Len(a)] \in Quotes THEN SubSeq(a, 1, Len(a) - 1) ELSE a

\* parseValue for the values without a decimal point
parseValue(value) ==
  IF LowerStr(value) = <<"t","r","u","e">> THEN Bool(TRUE)
  ELSE IF LowerStr(value) = <<"f","a","l","s","e">> THEN Bool(FALSE)
  ELSE IF value # <<>> /\ \A i \in 1..Len(value) : value[i] \in Digits
  THEN Num(ParseInt(value))
  ELSE Str(Unquote(value))

\* A line of a config file that has a colon, split at its first colon and
\* trimmed: its indentation, its key and its value (empty when nothing
\* follows the colon); Comment stands for a blank line, a comment and a line
\* without a colon.
Line(indent, key, value) == [indent |-> indent, key |-> key, value |-> value]
Comment == Line(0, "", <<>>)

\* the loop of parseYaml from the state st: the object read so far and
\* the section the next indented line belongs to ("" for none)
RECURSIVE ParseLines(_, _)
ParseLines(lines, st) ==
  IF lines = <<>> THEN st.config
  ELSE LET l == Head(lines)
           next ==
             IF l = Comment THEN st
             ELSE IF l.indent = 0
             THEN IF l.value # <<>>
                  THEN [config |-> Set(st.config, l.key, parseValue(l.value)), section |-> ""]
                  ELSE [config |-> Set(st.config, l.key, Obj({})), section |-> l.key]
             ELSE IF st.section # ""
             THEN [st EXCEPT !.config =
                     Set(@, st.section,
                         Obj(Set(Get(@, st.section).members, l.key, parseValue(l.value))))]
             ELSE st
       IN ParseLines(Tail(lines), next)

\* parseYaml of the lines of a file
parseYaml(lines) == ParseLines(lines, [config |-> {}, section |-> ""])

\* the process's working directory is the project or the home directory
Home == "home"
WorkDirs == { "project", Home }

\* path.join(dir, '.forever') and path.join(dir, '.forever', 'config.yml')
ForeverDir(dir) == <<dir, ".forever">>
ConfigFile(dir) == ForeverDir(dir) \o <<"config.yml">>

\* a file system: the working directory and the config files that exist, as
\* pairs of a path and the lines of the file
existsSync(fs, path) == Has(fs.files, path)

DefaultModel == <<"Xenova/all-MiniLM-L6-v2">>

\* { ...parsed, data_dir: dir, source: file }
Spread(parsed, dir, file) == Set(Set(parsed, "data_dir", Str(dir)), "source", Str(file))

DefaultConfig ==
  { <<"embeddings", Obj({ <<"path", Str(DefaultModel)>> })>>,
    <<"data_dir", Str(ForeverDir(Home))>>,
    <<"source", Str(<<"default">>)>> }

\* a loadConfig that looks at the user's directory first
loadConfigUserFirst(fs) ==
  IF existsSync(fs, ConfigFile(Home))
  THEN Spread(parseYaml(Get(fs.files, ConfigFile(Home))), ForeverDir(Home), ConfigFile(Home))
  ELSE IF existsSync(fs, ConfigFile(fs.cwd))
  THEN Spread(parseYaml(Get(fs.files, ConfigFile(fs.cwd))),
              ForeverDir(fs.cwd), ConfigFile(fs.cwd))
  ELSE DefaultConfig

loadConfig(fs) ==
  IF existsSync(fs, ConfigFile(fs.cwd))
  THEN Spread(parseYaml(Get(fs.files, ConfigFile(fs.cwd))),
              ForeverDir(fs.cwd), ConfigFile(fs.cwd))
  ELSE IF existsSync(fs, ConfigFile(Home))
  THEN Spread(parseYaml(Get(fs.files, ConfigFile(Home))), ForeverDir(Home), ConfigFile(Home))
  ELSE DefaultConfig

\* config.auto_index as main tests it
AutoIndexOn(config) == Has(config, "auto_index") /\ Truthy(Get(config, "auto_index"))

\* config.embeddings?.path || 'Xenova/all-MiniLM-L6-v2'
ModelPath(config) ==
  IF /\ Has(config, "embeddings")
     /\ Get(config, "embeddings").kind = "object"
     /\ Has(Get(config, "embeddings").members, "path")
     /\ Truthy(Get(Get(config, "embeddings").members, "path"))
  THEN Get(Get(config, "embeddings").members, "path").text
  ELSE DefaultModel

\* a file system without config files
NoFiles == [cwd |-> "project", files |-> {}]

\* ================================================================== state
Reqs == 1..NumReq
Autos == (NumReq + 1)..(NumReq + NumAuto)
Procs == Reqs \cup Autos
\* an Embedder or VectorStore object is named by the request or the
\* auto-index process that constructed it; 0 is null, and Earlier names the
\* objects a request that is over by now has constructed
Earlier == NumReq + NumAuto + 1
Objs == Procs \cup {Earlier}

VARIABLES
  now,          \* the millisecond clock
  faults,       \* backend failures so far
  initialized,  \* CCForeverServer.initialized
  srvEmbedder,  \* CCForeverServer.embedder
  srvStore,     \* CCForeverServer.vectorStore
  model,        \* Embedder.model is set, per Embedder
  initPromise,  \* Embedder.initPromise: 0, or the caller that created it
  loads,        \* the pipeline() calls in flight
  loadCount,    \* the pipeline() calls made so far, per Embedder
  db,           \* VectorStore.db is set, per VectorStore
  table,        \* VectorStore.table is set, per VectorStore
  dbTable,      \* the table "memories" exists in the database
  rows,         \* its rows, in table order, each with the call that wrote it
  req,          \* the tool requests
  aut           \* the auto-index processes

embedderVars == <<model, initPromise, loads, loadCount>>
serverVars == <<initialized, srvEmbedder, srvStore>>
storeVars == <<db, table>>
diskVars == <<dbTable, rows>>
vars == <<now, faults, initialized, srvEmbedder, srvStore, model, initPromise,
          loads, loadCount, db, table, dbTable, rows, req, aut>>

IdleReq ==
  [ pc |-> "idle", tool |-> "", args |-> NoArgs, inited |-> FALSE,
    timestamp |-> <<>>, chunks |-> <<>>, docs |-> <<>>, qvec |-> {},
    emb |-> 0, vs |-> 0, wake |-> "none", count |-> 0, limit |-> 0,
    threw |-> FALSE, result |-> NoResult ]

NullChunk == [text |-> <<>>, question |-> <<>>]

\* an auto-index process: its hook input (valid: stdin holds JSON), the
\* configuration in effect, the transcript file ("read", "missing" or
\* "unreadable") with its entries and the pair extractLastQAPair finds in
\* them, and the locals of main
IdleAuto ==
  [ pc |-> "idle", stop_hook_active |-> FALSE, auto_index |-> FALSE,
    session_id |-> <<>>, cwd |-> <<>>, has_qa |-> FALSE, qa |-> NullChunk,
    valid |-> TRUE, transcript |-> "read", messages |-> <<>>,
    files |-> NoFiles, config |-> {},
    docs |-> <<>>, vs |-> 0, outcome |-> "none" ]

Init ==
  /\ now = 0
  /\ faults = 0
  /\ initialized = FALSE
  /\ srvEmbedder = 0
  /\ srvStore = 0
  /\ model = [o \in Objs |-> FALSE]
  /\ initPromise = [o \in Objs |-> 0]
  /\ loads = {}
  /\ loadCount = [o \in Objs |-> 0]
  /\ db = [o \in Objs |-> FALSE]
  /\ table = [o \in Objs |-> FALSE]
  /\ dbTable = FALSE
  /\ rows = <<>>
  /\ req = [r \in Reqs |-> IdleReq]
  /\ aut = [a \in Autos |-> IdleAuto]

Load(e, kind, by) == [emb |-> e, kind |-> kind, by |-> by]

\* rows as a call writes them
Written(docs, by) == [i \in 1..Len(docs) |-> [doc |-> docs[i], call |-> by]]

\* ======================================================= Embedder (config.ts)
\* ensureInitialized without its initPromise test
EnsureInitializedNoMarker(modelSet, promise) ==
  IF modelSet THEN "ready" ELSE "start"

\* Embedder.ensureInitialized: "ready" when the model is set, "await" when
\* an initPromise exists, "start" when it creates one
EnsureInitialized(modelSet, promise) ==
  IF modelSet THEN "ready" ELSE IF promise # 0 THEN "await" ELSE "start"

\* the text a request's pending embed() call was given
EmbedText(rec) ==
  IF rec.tool = "store_memory" THEN rec.chunks[Len(rec.docs) + 1].text
  ELSE rec.args.query

\* a request is over: its result goes to the host and the locals of the
\* operation go out of scope
Done(r, rec, res) ==
  /\ req' = [req EXCEPT ![r] =
               [rec EXCEPT !.pc = "done", !.result = res, !.wake = "none",
                           !.timestamp = <<>>, !.chunks = <<>>, !.docs = <<>>,
                           !.count = 0, !.emb = 0, !.vs = 0]]
  /\ UNCHANGED embedderVars

\* an exception reaches the catch of the CallToolRequestSchema handler
Throw(r, rec, err) == Done(r, [rec EXCEPT !.threw = TRUE], HandlerCatch(err))

\* an exception of the vector store reaches the catch of deleteMemory
DeleteThrow(r, rec, err) == Done(r, [rec EXCEPT !.threw = TRUE], DeleteCatch(err))

Goto(r, rec, pc) ==
  /\ req' = [req EXCEPT ![r] = [rec EXCEPT !.pc = pc, !.wake = "none"]]
  /\ UNCHANGED embedderVars

\* embed() without its empty-text check
EmbedInferUnchecked(r, rec) == Goto(r, rec, "embed_infer")

\* embed() after ensureInitialized() returned: the empty-text check, then
\* the model call
EmbedInfer(r, rec) ==
  IF Len(EmbedText(rec)) = 0
  THEN Throw(r, rec, <<"Cannot generate embedding for empty text">>)
  ELSE Goto(r, rec, "embed_infer")

\* this.embedder!.embed(text), up to its first await that waits
EmbedCall(r, rec) ==
  LET e == srvEmbedder
      rec1 == [rec EXCEPT !.emb = e]
      d == EnsureInitialized(model[e], initPromise[e])
  IN IF d = "ready" THEN EmbedInfer(r, rec1)
     ELSE IF d = "await"
     THEN /\ req' = [req EXCEPT ![r] = [rec1 EXCEPT !.pc = "embed_wait", !.wake = "pending"]]
          /\ UNCHANGED embedderVars
     ELSE /\ req' = [req EXCEPT ![r] = [rec1 EXCEPT !.pc = "embed_wait", !.wake = "pending"]]
          /\ loads' = loads \cup {Load(e, "lazy", r)}
          /\ initPromise' = [initPromise EXCEPT ![e] = r]
          /\ loadCount' = [loadCount EXCEPT ![e] = @ + 1]
          /\ UNCHANGED model

\* ================================================ VectorStore (vectorstore.ts)
\* insertChunks up to its await: "return", "throw", "create" or "add"
InsertBranch(docs, tableSet, dbSet) ==
  IF Len(docs) = 0 THEN "return"
  ELSE IF ~tableSet THEN (IF ~dbSet THEN "throw" ELSE "create")
  ELSE "add"

\* a batch of which the first record only is written
InsertRecordsFirstOnly(docs) == SubSeq(docs, 1, 1)

\* the records insertChunks hands to createTable or table.add
InsertRecords(docs) == docs

InsertCall(r, rec) ==
  LET v == srvStore
      rec1 == [rec EXCEPT !.vs = v]
      b == InsertBranch(rec.docs, table[v], db[v])
  IN IF b = "return" THEN Done(r, rec1, StoreOk(Len(rec.chunks), rec.timestamp))
     ELSE IF b = "throw"
     THEN Throw(r, rec1, <<"Failed to insert chunks: ", "VectorStore is not initialized">>)
     ELSE IF b = "create" THEN Goto(r, rec1, "ins_create")
     ELSE Goto(r, rec1, "ins_add")

\* this.vectorStore!.search(queryVector, n_results * 2) up to its await
SearchCall(r, rec) ==
  LET v == srvStore
      rec1 == [rec EXCEPT !.vs = v,
                          !.limit = SearchLimit(ClampResults(rec.args.n_results))]
  IN IF ~table[v]
     THEN Done(r, rec1, RetrieveOk(FormatResults(<<>>, rec.args), rec.args.query))
     ELSE Goto(r, rec1, "search")

\* ================================================ CCForeverServer (index.ts)
\* a zero-chunk result that carries the message of the empty-content check
NoPairsFailureAsEmpty == Failure(<<"Content cannot be empty">>)

\* the result of storeMemory when chunks.length === 0
NoPairsFailure == Failure(<<"No valid Q&A pairs found in content.">>)

\* a length check that rejects a string of exactly max characters too
TooLongInclusive(s, max) == Len(s) >= max

\* content.length > 100000, query.length > 10000
TooLong(s, max) == Len(s) > max

\* a string that has no character but white space
IsBlankEmptyOnly(s) == Len(s) = 0

\* !s || !s.trim()
IsBlank(s) == Len(s) = 0 \/ Len(Trim(s)) = 0

\* storeMemory up to its first await
StoreBegin(r, rec) ==
  LET a == rec.args
      rec1 == [rec EXCEPT !.timestamp = ToISOString(now), !.chunks = StoreChunks(a)]
  IN IF IsBlank(a.content)
     THEN Done(r, rec, Failure(<<"Content cannot be empty">>))
     ELSE IF TooLong(a.content, MaxContentLength)
     THEN Done(r, rec, Failure(<<"Content too large (max 100KB)">>))
     ELSE IF Len(rec1.chunks) = 0
     THEN Done(r, rec1, NoPairsFailure)
     ELSE EmbedCall(r, rec1)

\* retrieveMemory up to its first await
RetrieveBegin(r, rec) ==
  LET a == rec.args
  IN IF IsBlank(a.query)
     THEN Done(r, rec, Failure(<<"Query cannot be empty">>))
     ELSE IF TooLong(a.query, MaxQueryLength)
     THEN Done(r, rec, Failure(<<"Query too long (max 10KB)">>))
     ELSE EmbedCall(r, rec)

\* getStats up to its first await; getStatus answers 0 without a table
StatsBegin(r, rec, tbl) ==
  LET v == srvStore
      rec1 == [rec EXCEPT !.vs = v]
  IN IF ~tbl[v] THEN Done(r, rec1, StatsOk(0)) ELSE Goto(r, rec1, "status")

\* deleteMemory up to its first await
DeleteBegin(r, rec, tbl) ==
  LET a == rec.args
      v == srvStore
      rec1 == [rec EXCEPT !.vs = v]
      b == DeleteBranch(a)
  IN IF DeleteInvalid(a)
     THEN Done(r, rec, Failure(<<"At least one deletion criteria must be specified">>))
     ELSE IF b = "all"
     THEN (IF ~tbl[v] THEN Done(r, rec1, DeleteOk(0, a)) ELSE Goto(r, rec1, "delall_count"))
     ELSE IF b = "nothing" THEN Done(r, rec, DeleteOk(0, a))
     ELSE IF ~tbl[v] THEN DeleteThrow(r, rec1, <<"Table not initialized">>)
     ELSE Goto(r, rec1, "del_count1")

\* the switch of the CallToolRequestSchema handler; tbl is VectorStore.table
\* as the segment that runs the switch has left it
Dispatch(r, rec, tbl) ==
  IF rec.tool = "store_memory" THEN StoreBegin(r, rec)
  ELSE IF rec.tool = "retrieve_memory" THEN RetrieveBegin(r, rec)
  ELSE IF rec.tool = "get_stats" THEN StatsBegin(r, rec, tbl)
  ELSE IF rec.tool = "delete_memory" THEN DeleteBegin(r, rec, tbl)
  ELSE Done(r, rec, Failure(<<"Unknown tool: ">>))

\* the handler's lazy-initialization test
NeedsInit(isInitialized) == ~isInitialized

\* A tool request arrives.  Without initialization the handler enters
\* CCForeverServer.initialize(): a new Embedder replaces this.embedder and
\* its initialize() calls pipeline().
Arrive(r, c) ==
  /\ req[r].pc = "idle"
  /\ IF r = 1 THEN TRUE ELSE req[r - 1].pc # "idle"
  /\ LET rec == [IdleReq EXCEPT !.tool = c.tool, !.args = c.args]
     IN IF NeedsInit(initialized)
        THEN /\ srvEmbedder' = r
             /\ loads' = loads \cup {Load(r, "direct", r)}
             /\ loadCount' = [loadCount EXCEPT ![r] = @ + 1]
             /\ req' = [req EXCEPT ![r] = [rec EXCEPT !.pc = "init_load", !.inited = TRUE]]
             /\ UNCHANGED <<model, initPromise>>
        ELSE /\ Dispatch(r, rec, table)
             /\ UNCHANGED srvEmbedder
  /\ UNCHANGED <<now, faults, initialized, srvStore, storeVars, diskVars, aut>>

\* pipeline() of the request's own Embedder resolves: the model is set, a
\* new VectorStore replaces this.vectorStore and its initialize() connects
ServerLoadDone(r) ==
  /\ req[r].pc = "init_load"
  /\ Load(r, "direct", r) \in loads
  /\ loads' = loads \ {Load(r, "direct", r)}
  /\ model' = [model EXCEPT ![r] = TRUE]
  /\ srvStore' = r
  /\ req' = [req EXCEPT ![r].pc = "vs_connect"]
  /\ UNCHANGED <<now, faults, initialized, srvEmbedder, initPromise, loadCount,
                 storeVars, diskVars, aut>>

\* pipeline() rejects: Embedder.initialize throws, the handler catches
ServerLoadFail(r) ==
  /\ req[r].pc = "init_load"
  /\ faults < MaxFaults
  /\ faults' = faults + 1
  /\ loads' = loads \ {Load(r, "direct", r)}
  /\ req' = [req EXCEPT ![r].pc = "done", ![r].threw = TRUE,
                        ![r].result = HandlerCatch(<<"Failed to initialize Embedder: ">>)]
  /\ UNCHANGED <<now, serverVars, model, initPromise, loadCount, storeVars, diskVars, aut>>

\* connect() resolves: VectorStore.db is set
ServerConnected(r) ==
  /\ req[r].pc = "vs_connect"
  /\ db' = [db EXCEPT ![r] = TRUE]
  /\ req' = [req EXCEPT ![r].pc = "vs_tables"]
  /\ UNCHANGED <<now, faults, serverVars, embedderVars, table, diskVars, aut>>

\* tableNames() resolves, and openTable() when the table is listed; then
\* initialized becomes true and the handler runs the tool
ServerOpened(r) ==
  /\ req[r].pc = "vs_tables"
  /\ table' = [table EXCEPT ![r] = dbTable]
  /\ initialized' = TRUE
  /\ Dispatch(r, req[r], [table EXCEPT ![r] = dbTable])
  /\ UNCHANGED <<now, faults, srvEmbedder, srvStore, db, diskVars, aut>>

\* a pipeline() call started by ensureInitialized resolves: the model is
\* set and initPromise is fulfilled, which wakes the embed() calls awaiting it
LazyLoadDone(l) ==
  /\ l \in loads
  /\ l.kind = "lazy"
  /\ loads' = loads \ {l}
  /\ model' = [model EXCEPT ![l.emb] = TRUE]
  /\ req' = [r \in Reqs |->
               IF req[r].pc = "embed_wait" /\ req[r].emb = l.emb /\ req[r].wake = "pending"
               THEN [req[r] EXCEPT !.wake = "ok"] ELSE req[r]]
  /\ UNCHANGED <<now, faults, serverVars, initPromise, loadCount, storeVars, diskVars, aut>>

\* it rejects: the catch of ensureInitialized clears initPromise and
\* rethrows to every embed() call awaiting it
LazyLoadFail(l) ==
  /\ l \in loads
  /\ l.kind = "lazy"
  /\ faults < MaxFaults
  /\ faults' = faults + 1
  /\ loads' = loads \ {l}
  /\ initPromise' = [initPromise EXCEPT ![l.emb] = 0]
  /\ req' = [r \in Reqs |->
               IF req[r].pc = "embed_wait" /\ req[r].emb = l.emb /\ req[r].wake = "pending"
               THEN [req[r] EXCEPT !.wake = "fail"] ELSE req[r]]
  /\ UNCHANGED <<now, serverVars, model, loadCount, storeVars, diskVars, aut>>

\* an embed() call resumes after awaiting initPromise
EmbedResume(r) ==
  /\ req[r].pc = "embed_wait"
  /\ req[r].wake \in {"ok", "fail"}
  /\ IF req[r].wake = "ok" THEN EmbedInfer(r, req[r])
     ELSE Throw(r, req[r], <<"Failed to initialize Embedder: ">>)
  /\ UNCHANGED <<now, faults, serverVars, storeVars, diskVars, aut>>

\* the model call of embed() resolves; storeMemory pushes the document and
\* embeds the next chunk or inserts the batch, retrieveMemory searches
InferDone(r) ==
  /\ req[r].pc = "embed_infer"
  /\ LET rec == req[r]
         vector == ModelCall(EmbedText(rec))
     IN IF rec.tool = "store_memory"
        THEN LET i == Len(rec.docs)
                 rec1 == [rec EXCEPT !.docs =
                            Append(@, StoreDocument(rec.timestamp, i, rec.chunks[i + 1],
                                                    vector, rec.args))]
             IN IF Len(rec1.docs) < Len(rec1.chunks)
                THEN EmbedCall(r, rec1) ELSE InsertCall(r, rec1)
        ELSE SearchCall(r, [rec EXCEPT !.qvec = vector])
  /\ UNCHANGED <<now, faults, serverVars, storeVars, diskVars, aut>>

\* db.createTable(name, records) resolves: it creates the table with the
\* batch, or fails because the table exists by now
InsertCreated(r) ==
  /\ req[r].pc = "ins_create"
  /\ IF dbTable
     THEN /\ Throw(r, req[r], <<"Failed to insert chunks: ", "Table already exists">>)
          /\ UNCHANGED <<table, diskVars>>
     ELSE /\ dbTable' = TRUE
          /\ rows' = Written(InsertRecords(req[r].docs), r)
          /\ table' = [table EXCEPT ![req[r].vs] = TRUE]
          /\ Done(r, req[r], StoreOk(Len(req[r].chunks), req[r].timestamp))
  /\ UNCHANGED <<now, faults, serverVars, db, aut>>

\* table.add(records) resolves
InsertAdded(r) ==
  /\ req[r].pc = "ins_add"
  /\ rows' = rows \o Written(InsertRecords(req[r].docs), r)
  /\ Done(r, req[r], StoreOk(Len(req[r].chunks), req[r].timestamp))
  /\ UNCHANGED <<now, faults, serverVars, storeVars, dbTable, aut>>

\* the vector search resolves; retrieveMemory filters and formats
SearchDone(r) ==
  /\ req[r].pc = "search"
  /\ Done(r, req[r],
          RetrieveOk(FormatResults(VectorSearch(rows, req[r].qvec, req[r].limit),
                                   req[r].args),
                     req[r].args.query))
  /\ UNCHANGED <<now, faults, serverVars, storeVars, diskVars, aut>>

\* the full scan of getStatus resolves
StatusDone(r) ==
  /\ req[r].pc = "status"
  /\ Done(r, req[r], StatsOk(Len(rows)))
  /\ UNCHANGED <<now, faults, serverVars, storeVars, diskVars, aut>>

\* deleteAll: the scan that counts the rows, then the delete
DeleteAllCounted(r) ==
  /\ req[r].pc = "delall_count"
  /\ Goto(r, [req[r] EXCEPT !.count = Len(rows)], "delall_exec")
  /\ UNCHANGED <<now, faults, serverVars, storeVars, diskVars, aut>>

DeleteAllDone(r) ==
  /\ req[r].pc = "delall_exec"
  /\ rows' = <<>>
  /\ Done(r, req[r], DeleteOk(req[r].count, req[r].args))
  /\ UNCHANGED <<now, faults, serverVars, storeVars, dbTable, aut>>

\* deleteChunks: the scan before, the delete, the scan after
DeleteCounted(r) ==
  /\ req[r].pc = "del_count1"
  /\ Goto(r, [req[r] EXCEPT !.count = Len(rows)], "del_exec")
  /\ UNCHANGED <<now, faults, serverVars, storeVars, diskVars, aut>>

DeleteExecuted(r) ==
  /\ req[r].pc = "del_exec"
  /\ IF WellFormed(DeletePredicate(req[r].args))
     THEN /\ rows' = TableDelete(rows, DeletePredicate(req[r].args))
          /\ Goto(r, req[r], "del_count2")
     ELSE /\ rows' = rows
          /\ DeleteThrow(r, req[r], <<"Failed to delete chunks: ">>)
  /\ UNCHANGED <<now, faults, serverVars, storeVars, dbTable, aut>>

DeleteDone(r) ==
  /\ req[r].pc = "del_count2"
  /\ Done(r, req[r], DeleteOk(req[r].count - Len(rows), req[r].args))
  /\ UNCHANGED <<now, faults, serverVars, storeVars, diskVars, aut>>

\* The backend call a request awaits rejects, leaving the table as it was.
\* Each VectorStore method wraps and rethrows, except getStatus, whose catch
\* answers a count of 0.
CallFails(r) ==
  /\ req[r].pc \in {"vs_connect", "vs_tables", "embed_infer", "ins_create", "ins_add",
                    "search", "status", "delall_count", "delall_exec",
                    "del_count1", "del_exec", "del_count2"}
  /\ faults < MaxFaults
  /\ faults' = faults + 1
  /\ LET rec == req[r]
     IN CASE rec.pc \in {"vs_connect", "vs_tables"} ->
               Throw(r, rec, <<"Failed to initialize VectorStore: ">>)
          [] rec.pc = "embed_infer" -> Throw(r, rec, <<"Failed to generate embedding: ">>)
          [] rec.pc \in {"ins_create", "ins_add"} ->
               Throw(r, rec, <<"Failed to insert chunks: ">>)
          [] rec.pc = "search" -> Throw(r, rec, <<"Failed to search: ">>)
          [] rec.pc = "status" -> Done(r, rec, StatsOk(0))
          [] rec.pc \in {"delall_count", "delall_exec"} ->
               DeleteThrow(r, rec, <<"Failed to delete all chunks: ">>)
          [] OTHER -> DeleteThrow(r, rec, <<"Failed to delete chunks: ">>)
  /\ UNCHANGED <<now, serverVars, storeVars, diskVars, aut>>

\* ============================================== auto-index (auto-index.ts)
SessionS == <<"s">>

\* message.content: a string, an array of parts, or nothing
StringContent(text) == [kind |-> "string", text |-> text, parts |-> <<>>]
ArrayContent(parts) == [kind |-> "array", text |-> <<>>, parts |-> parts]
NoContent == [kind |-> "none", text |-> <<>>, parts |-> <<>>]

\* a part of an array content; text is empty when the part has none
Part(type, text) == [type |-> type, text |-> text]

\* an entry of the transcript
Message(type, content) == [type |-> type, content |-> content]

\* content.filter(c => c.type === 'text' && c.text).map(c => c.text)
RECURSIVE TextParts(_)
TextParts(parts) ==
  IF parts = <<>> THEN <<>>
  ELSE (IF Head(parts).type = "text" /\ Head(parts).text # <<>>
        THEN <<Head(parts).text>> ELSE <<>>) \o TextParts(Tail(parts))

extractTextContent(content) ==
  IF content.kind = "string" THEN content.text
  ELSE IF content.kind = "array" THEN Join(TextParts(content.parts), <<" ">>)
  ELSE <<>>

\* '[Request interrupted'
InterruptMark ==
  <<"[","R","e","q","u","e","s","t"," ","i","n","t","e","r","r","u","p","t","e","d">>

\* the greatest length of the question of an auto-indexed pair
AutoQuestionMax == 200

\* messages.filter(msg => msg.type === 'user' || msg.type === 'assistant')
RECURSIVE Conversation(_)
Conversation(messages) ==
  IF messages = <<>> THEN <<>>
  ELSE (IF Head(messages).type \in {"user", "assistant"} THEN <<Head(messages)>> ELSE <<>>)
         \o Conversation(Tail(messages))

\* the backward loop: the last user entry with text that is not an
\* interruption, 0 if there is none
LastUserIndex(conv) ==
  LET ok == { i \in 1..Len(conv) :
                /\ conv[i].type = "user"
                /\ extractTextContent(conv[i].content) # <<>>
                /\ ~Includes(extractTextContent(conv[i].content), InterruptMark) }
  IN IF ok = {} THEN 0 ELSE CHOOSE i \in ok : \A j \in ok : j <= i

\* a forward loop that goes on past a user entry
RECURSIVE AssistantAfterPastUser(_, _)
AssistantAfterPastUser(conv, i) ==
  IF i > Len(conv) THEN <<>>
  ELSE IF conv[i].type = "user" THEN AssistantAfterPastUser(conv, i + 1)
  ELSE LET c == extractTextContent(conv[i].content)
       IN (IF c # <<>> THEN c \o <<"\n">> ELSE <<>>) \o AssistantAfterPastUser(conv, i + 1)

\* the forward loop from entry i: the assistant texts, each followed by a
\* line feed, up to the next user entry
RECURSIVE AssistantAfter(_, _)
AssistantAfter(conv, i) ==
  IF i > Len(conv) THEN <<>>
  ELSE IF conv[i].type = "user" THEN <<>>
  ELSE LET c == extractTextContent(conv[i].content)
       IN (IF c # <<>> THEN c \o <<"\n">> ELSE <<>>) \o AssistantAfter(conv, i + 1)

\* extractLastQAPair; NullChunk stands for null
extractLastQAPair(messages) ==
  LET conv == Conversation(messages)
      k == LastUserIndex(conv)
  IN IF k = 0 THEN NullChunk
     ELSE LET q == extractTextContent(conv[k].content)
              a == Trim(AssistantAfter(conv, k + 1))
              cut == IF Len(a) > MaxAnswerLength
                     THEN SubSeq(a, 1, MaxAnswerLength) \o <<".", ".", ".">> ELSE a
          IN IF a = <<>> THEN NullChunk
             ELSE [ text |-> HumanPrefix \o q \o AssistantPrefix \o cut,
                    question |-> Slice0(q, AutoQuestionMax) ]

\* the hook input inp with the transcript file in the given state
WithTranscript(inp, transcript, messages) ==
  LET qa == extractLastQAPair(messages)
  IN [inp EXCEPT !.transcript = transcript,
                 !.messages = IF transcript = "read" THEN messages ELSE <<>>,
                 !.has_qa = (transcript = "read" /\ qa # NullChunk),
                 !.qa = IF transcript = "read" THEN qa ELSE NullChunk]

\* a question and its answer
TranscriptXY ==
  << Message("user", StringContent(<<"x">>)),
     Message("assistant", StringContent(<<"y">>)) >>

\* the hook inputs: re-entrant, disabled, nothing to index, one exchange
AutoInputs ==
  { WithTranscript([IdleAuto EXCEPT !.stop_hook_active = TRUE, !.auto_index = TRUE,
                                    !.session_id = SessionS, !.cwd = ProjectX],
                   "read", TranscriptXY),
    WithTranscript([IdleAuto EXCEPT !.auto_index = FALSE, !.session_id = SessionS,
                                    !.cwd = ProjectX],
                   "read", TranscriptXY),
    [IdleAuto EXCEPT !.auto_index = TRUE],
    WithTranscript([IdleAuto EXCEPT !.auto_index = TRUE, !.session_id = SessionS,
                                    !.cwd = ProjectX],
                   "read", TranscriptXY) }

\* checks that do not look at the configuration
AutoSkipsReentrantOnly(inp) ==
  inp.stop_hook_active \/ inp.transcript = "missing" \/ ~inp.has_qa

\* the returns of main before it constructs the Embedder: re-entrant,
\* disabled, no transcript, no entries or no pair
AutoSkips(inp) ==
  inp.stop_hook_active \/ ~inp.auto_index \/ inp.transcript = "missing" \/ ~inp.has_qa

\* main throws before it constructs the Embedder: stdin holds no JSON, or
\* the transcript that exists cannot be read
AutoThrows(inp) ==
  \/ ~inp.valid
  \/ ~inp.stop_hook_active /\ inp.auto_index /\ inp.transcript = "unreadable"

\* the chunk main inserts
AutoDocument(inp, vector, t) ==
  [ id |-> AutoId(IF inp.session_id # <<>> THEN inp.session_id
                  ELSE <<"u","n","k","n","o","w","n">>, t),
    text |-> inp.qa.text,
    question |-> inp.qa.question,
    vector |-> vector,
    project |-> inp.cwd,
    tags |-> <<"a","u","t","o","-","i","n","d","e","x","e","d">>,
    timestamp |-> ToISOString(t) ]

\* a catch that lets the error go on to the host
AutoCatchRethrows == "crash"

\* the catch of main logs the error and main returns
AutoCatch == "error"

\* main returns and the process exits: what is left of it is its input and
\* how it ended
AutoEnd(rec, outcome) ==
  [IdleAuto EXCEPT !.pc = "done", !.outcome = outcome,
                   !.stop_hook_active = rec.stop_hook_active,
                   !.auto_index = rec.auto_index, !.has_qa = rec.has_qa,
                   !.valid = rec.valid, !.transcript = rec.transcript,
                   !.messages = rec.messages]

\* main up to `await embedder.initialize()`
AutoStart(a, inp) ==
  /\ aut[a].pc = "idle"
  /\ IF AutoThrows(inp)
     THEN /\ aut' = [aut EXCEPT ![a] = AutoEnd(inp, AutoCatch)]
          /\ UNCHANGED <<loads, loadCount>>
     ELSE IF AutoSkips(inp)
     THEN /\ aut' = [aut EXCEPT ![a] = AutoEnd(inp, "skipped")]
          /\ UNCHANGED <<loads, loadCount>>
     ELSE /\ aut' = [aut EXCEPT ![a] = [inp EXCEPT !.pc = "load"]]
          /\ loads' = loads \cup {Load(a, "direct", a)}
          /\ loadCount' = [loadCount EXCEPT ![a] = @ + 1]
  /\ UNCHANGED <<now, faults, serverVars, model, initPromise, storeVars, diskVars, req>>

\* its model is loaded; vectorStore.initialize() connects
AutoLoadDone(a) ==
  /\ aut[a].pc = "load"
  /\ loads' = loads \ {Load(a, "direct", a)}
  /\ model' = [model EXCEPT ![a] = TRUE]
  /\ aut' = [aut EXCEPT ![a].pc = "vs_init"]
  /\ UNCHANGED <<now, faults, serverVars, initPromise, loadCount, storeVars, diskVars, req>>

\* its VectorStore is connected and has opened the table if one is listed;
\* embed() finds the model set and calls it
AutoOpened(a) ==
  /\ aut[a].pc = "vs_init"
  /\ EnsureInitialized(model[a], initPromise[a]) = "ready"
  /\ db' = [db EXCEPT ![a] = TRUE]
  /\ table' = [table EXCEPT ![a] = dbTable]
  /\ aut' = [aut EXCEPT ![a].pc = "infer"]
  /\ UNCHANGED <<now, faults, serverVars, embedderVars, diskVars, req>>

\* the model call resolves; main builds the chunk and insertChunks runs to
\* its await
AutoInferDone(a) ==
  /\ aut[a].pc = "infer"
  /\ LET doc == AutoDocument(aut[a], ModelCall(aut[a].qa.text), now)
         b == InsertBranch(<<doc>>, table[a], db[a])
     IN aut' = [aut EXCEPT ![a].docs = <<doc>>, ![a].vs = a,
                           ![a].pc = IF b = "create" THEN "ins_create" ELSE "ins_add"]
  /\ UNCHANGED <<now, faults, serverVars, embedderVars, storeVars, diskVars, req>>

AutoInsertCreated(a) ==
  /\ aut[a].pc = "ins_create"
  /\ IF dbTable
     THEN /\ aut' = [aut EXCEPT ![a] = AutoEnd(aut[a], AutoCatch)]
          /\ UNCHANGED <<table, diskVars>>
     ELSE /\ dbTable' = TRUE
          /\ rows' = Written(InsertRecords(aut[a].docs), a)
          /\ table' = [table EXCEPT ![a] = TRUE]
          /\ aut' = [aut EXCEPT ![a] = AutoEnd(aut[a], "indexed")]
  /\ UNCHANGED <<now, faults, serverVars, embedderVars, db, req>>

AutoInsertAdded(a) ==
  /\ aut[a].pc = "ins_add"
  /\ rows' = rows \o Written(InsertRecords(aut[a].docs), a)
  /\ aut' = [aut EXCEPT ![a] = AutoEnd(aut[a], "indexed")]
  /\ UNCHANGED <<now, faults, serverVars, embedderVars, storeVars, dbTable, req>>

\* any await of main rejects: the top-level catch logs and main ends
AutoFails(a) ==
  /\ aut[a].pc \in {"load", "vs_init", "infer", "ins_create", "ins_add"}
  /\ faults < MaxFaults
  /\ faults' = faults + 1
  /\ loads' = loads \ {Load(a, "direct", a)}
  /\ aut' = [aut EXCEPT ![a] = AutoEnd(aut[a], AutoCatch)]
  /\ UNCHANGED <<now, serverVars, model, initPromise, loadCount, storeVars, diskVars, req>>

\* ================================================================== system
Tick ==
  /\ now < MaxClock
  /\ now' = now + 1
  /\ UNCHANGED <<faults, serverVars, embedderVars, storeVars, diskVars, req, aut>>

Next ==
  \/ Tick
  \/ \E r \in Reqs : \E c \in ConcurrentCalls(rows) : Arrive(r, c)
  \/ \E r \in Reqs : ServerLoadDone(r)
  \/ \E r \in Reqs : ServerLoadFail(r)
  \/ \E r \in Reqs : ServerConnected(r)
  \/ \E r \in Reqs : ServerOpened(r)
  \/ \E l \in loads : LazyLoadDone(l)
  \/ \E l \in loads : LazyLoadFail(l)
  \/ \E r \in Reqs : EmbedResume(r)
  \/ \E r \in Reqs : InferDone(r)
  \/ \E r \in Reqs : InsertCreated(r)
  \/ \E r \in Reqs : InsertAdded(r)
  \/ \E r \in Reqs : SearchDone(r)
  \/ \E r \in Reqs : StatusDone(r)
  \/ \E r \in Reqs : DeleteAllCounted(r)
  \/ \E r \in Reqs : DeleteAllDone(r)
  \/ \E r \in Reqs : DeleteCounted(r)
  \/ \E r \in Reqs : DeleteExecuted(r)
  \/ \E r \in Reqs : DeleteDone(r)
  \/ \E r \in Reqs : CallFails(r)
  \/ \E a \in Autos : \E inp \in AutoInputs : AutoStart(a, inp)
  \/ \E a \in Autos : AutoLoadDone(a)
  \/ \E a \in Autos : AutoOpened(a)
  \/ \E a \in Autos : AutoInferDone(a)
  \/ \E a \in Autos : AutoInsertCreated(a)
  \/ \E a \in Autos : AutoInsertAdded(a)
  \/ \E a \in Autos : AutoFails(a)

Spec == Init /\ [][Next]_vars

\* ------------------------------------------- a server with a fresh Embedder
\* The server after an initialization has completed while a later request's
\* initialize() had replaced this.embedder and then failed to load its
\* model: initialized is true and this.embedder has no model, no
\* initPromise and no load in flight.  Every embed() call of the requests
\* that follow goes through the lazy initialization of ensureInitialized.
InitLazy ==
  /\ now = 0
  /\ faults = 0
  /\ initialized = TRUE
  /\ srvEmbedder = Earlier
  /\ srvStore = Earlier
  /\ model = [o \in Objs |-> FALSE]
  /\ initPromise = [o \in Objs |-> 0]
  /\ loads = {}
  /\ loadCount = [o \in Objs |-> 0]
  /\ db = [o \in Objs |-> o = Earlier]
  /\ table = [o \in Objs |-> FALSE]
  /\ dbTable = FALSE
  /\ rows = <<>>
  /\ req = [r \in Reqs |-> IdleReq]
  /\ aut = [a \in Autos |-> IdleAuto]

NextLazy ==
  \/ Tick
  \/ \E r \in Reqs : \E c \in ToolCalls(rows) : Arrive(r, c)
  \/ \E l \in loads : LazyLoadDone(l)
  \/ \E l \in loads : LazyLoadFail(l)
  \/ \E r \in Reqs : EmbedResume(r)
  \/ \E r \in Reqs : InferDone(r)
  \/ \E r \in Reqs : InsertCreated(r)
  \/ \E r \in Reqs : InsertAdded(r)
  \/ \E r \in Reqs : SearchDone(r)
  \/ \E r \in Reqs : StatusDone(r)
  \/ \E r \in Reqs : DeleteAllCounted(r)
  \/ \E r \in Reqs : DeleteAllDone(r)
  \/ \E r \in Reqs : DeleteCounted(r)
  \/ \E r \in Reqs : DeleteExecuted(r)
  \/ \E r \in Reqs : DeleteDone(r)
  \/ \E r \in Reqs : CallFails(r)

SpecLazy == InitLazy /\ [][NextLazy]_vars

\* InitLazy up to the names of the objects and of the requests; Spec
\* reaches a state that satisfies it
LazyStart ==
  /\ initialized
  /\ srvEmbedder # 0
  /\ ~model[srvEmbedder]
  /\ initPromise[srvEmbedder] = 0
  /\ loads = {}
  /\ db[srvStore]
  /\ \A r \in Reqs : req[r].pc = "done"

\* ------------------------------------------------ a server with a corpus
\* the documents an earlier store call at time 0 has inserted
CorpusStore(a) ==
  LET cs == StoreChunks(a)
  IN [i \in 1..Len(cs) |->
        StoreDocument(ToISOString(0), i - 1, cs[i], ModelCall(cs[i].text), a)]

\* the document an earlier auto-index process at time 0 has inserted
CorpusAuto ==
  LET inp == WithTranscript([IdleAuto EXCEPT !.auto_index = TRUE,
                                             !.session_id = SessionS, !.cwd = ProjectX],
                            "read", TranscriptXY)
  IN <<AutoDocument(inp, ModelCall(inp.qa.text), 0)>>

\* the tables the requests find: an auto-indexed exchange of project x
\* followed by a stored exchange of the default project, and a stored
\* free text "x" followed by the auto-indexed exchange
Corpora ==
  { Written(CorpusAuto \o CorpusStore([NoArgs EXCEPT !.content = ContentOne]), Earlier),
    Written(CorpusStore([NoArgs EXCEPT !.content = <<"x">>, !.chunk = FALSE])
              \o CorpusAuto, Earlier) }

\* retrieve calls over two queries, n_results below, in and above [1,100],
\* thresholds below, in and above [0,1], with and without a project filter
RetrieveVariants ==
  { Call("retrieve_memory",
         [NoArgs EXCEPT !.query = q, !.n_results = n, !.threshold = t, !.project = p]) :
      q \in {<<"x">>, <<"x", "z">>}, n \in {0, 1, 5, 101},
      t \in {0 - 1, 0, Unit \div 10, Unit \div 2, Unit + 1}, p \in {<<>>, ProjectX} }

\* the calls made on the corpus: the retrieve variants with the default
\* n_results or a low threshold, a store of two exchanges, and the calls
\* whose content or query is empty or white space
CorpusCalls ==
  { c \in RetrieveVariants :
      c.args.n_results = 5 \/ c.args.threshold \in {0, Unit \div 10} }
  \cup { Call("store_memory", [NoArgs EXCEPT !.content = ContentTwo]),
         Call("store_memory", [NoArgs EXCEPT !.content = ContentBlank]),
         Call("store_memory", NoArgs),
         Call("retrieve_memory", [NoArgs EXCEPT !.query = ContentBlank]),
         Call("retrieve_memory", NoArgs) }

\* The server after its initialization and earlier calls: the model of
\* this.embedder is loaded and the table exists with one of the corpora.
InitCorpus ==
  /\ now = 0
  /\ faults = 0
  /\ initialized = TRUE
  /\ srvEmbedder = Earlier
  /\ srvStore = Earlier
  /\ model = [o \in Objs |-> o = Earlier]
  /\ initPromise = [o \in Objs |-> 0]
  /\ loads = {}
  /\ loadCount = [o \in Objs |-> IF o = Earlier THEN 1 ELSE 0]
  /\ db = [o \in Objs |-> o = Earlier]
  /\ table = [o \in Objs |-> o = Earlier]
  /\ dbTable = TRUE
  /\ rows \in Corpora
  /\ req = [r \in Reqs |-> IdleReq]
  /\ aut = [a \in Autos |-> IdleAuto]

NextCorpus ==
  \/ Tick
  \/ \E r \in Reqs : \E c \in CorpusCalls : Arrive(r, c)
  \/ \E r \in Reqs : InferDone(r)
  \/ \E r \in Reqs : InsertAdded(r)
  \/ \E r \in Reqs : SearchDone(r)
  \/ \E r \in Reqs : CallFails(r)

SpecCorpus == InitCorpus /\ [][NextCorpus]_vars

\* ------------------------------------------- a server given long strings
\* stores of free text and retrieves whose content and query have exactly
\* the greatest length allowed and one character more
SizeCalls ==
  { Call("store_memory", [NoArgs EXCEPT !.content = Repeat("x", n), !.chunk = FALSE]) :
      n \in {MaxContentLength, MaxContentLength + 1} }
  \cup { Call("retrieve_memory", [NoArgs EXCEPT !.query = Repeat("x", n), !.threshold = 0]) :
           n \in {MaxQueryLength, MaxQueryLength + 1} }

NextSize ==
  \/ Tick
  \/ \E r \in Reqs : \E c \in SizeCalls : Arrive(r, c)
  \/ \E r \in Reqs : InferDone(r)
  \/ \E r \in Reqs : InsertAdded(r)
  \/ \E r \in Reqs : SearchDone(r)
  \/ \E r \in Reqs : CallFails(r)

\* the server with a corpus, given the calls of SizeCalls
SpecSize == InitCorpus /\ [][NextSize]_vars

\* ------------------------------------------------- auto-index runs alone
ToolUse == ArrayContent(<<Part("tool_use", <<>>)>>)
ToolResult == ArrayContent(<<Part("tool_result", <<>>)>>)

\* transcripts: a tool call between the question and the answer, without
\* and with assistant text before the call; an interruption after the
\* answer; a question without an answer; an answer of more than 2000
\* characters and a question of more than 200; contents given as parts
\* and an entry that is neither the human's nor the assistant's
TranscriptTool ==
  << Message("user", StringContent(<<"x">>)), Message("assistant", ToolUse),
     Message("user", ToolResult), Message("assistant", StringContent(<<"y">>)) >>

TranscriptToolText ==
  << Message("user", StringContent(<<"x">>)),
     Message("assistant", ArrayContent(<<Part("text", <<"z">>), Part("tool_use", <<>>)>>)),
     Message("user", ToolResult), Message("assistant", StringContent(<<"y">>)) >>

TranscriptInterrupted ==
  TranscriptXY \o << Message("user", StringContent(InterruptMark \o <<"]">>)) >>

TranscriptUnanswered ==
  << Message("user", StringContent(<<"z">>)), Message("assistant", StringContent(<<"y">>)),
     Message("user", StringContent(<<"x">>)) >>

TranscriptLong ==
  << Message("user", StringContent(Repeat("x", AutoQuestionMax + 1))),
     Message("assistant", StringContent(Repeat("y", MaxAnswerLength + 1))) >>

TranscriptParts ==
  << Message("system", NoContent),
     Message("user", ArrayContent(<<Part("text", <<"x">>), Part("text", <<"z">>)>>)),
     Message("assistant", ArrayContent(<<Part("text", <<"y">>)>>)),
     Message("assistant", StringContent(<<"z">>)) >>

\* answers with white space at their ends; an answer of white space
TranscriptPadded ==
  << Message("user", StringContent(<<"x">>)),
     Message("assistant", StringContent(<<" ", "y">>)),
     Message("assistant", StringContent(<<"z", "\n">>)) >>

TranscriptBlank ==
  << Message("user", StringContent(<<"x">>)),
     Message("assistant", StringContent(<<" ">>)) >>

Transcripts ==
  { <<>>, TranscriptXY, TranscriptTool, TranscriptToolText, TranscriptInterrupted,
    TranscriptUnanswered, TranscriptLong, TranscriptParts, TranscriptPadded,
    TranscriptBlank }

\* the runs of the hook: enabled runs over every transcript, over a
\* transcript that is missing or cannot be read and with stdin that holds no
\* JSON, and the re-entrant and the disabled run
AutoRuns ==
  LET on == [IdleAuto EXCEPT !.auto_index = TRUE, !.session_id = SessionS,
                             !.cwd = ProjectX]
  IN { WithTranscript(on, "read", t) : t \in Transcripts }
       \cup { WithTranscript(on, k, <<>>) : k \in {"missing", "unreadable"} }
       \cup { [on EXCEPT !.valid = FALSE] }
       \cup AutoInputs

\* no server runs; the database is empty or holds a corpus
InitAuto ==
  /\ now = 0
  /\ faults = 0
  /\ initialized = FALSE
  /\ srvEmbedder = 0
  /\ srvStore = 0
  /\ model = [o \in Objs |-> FALSE]
  /\ initPromise = [o \in Objs |-> 0]
  /\ loads = {}
  /\ loadCount = [o \in Objs |-> 0]
  /\ db = [o \in Objs |-> FALSE]
  /\ table = [o \in Objs |-> FALSE]
  /\ \/ dbTable = FALSE /\ rows = <<>>
     \/ dbTable = TRUE /\ rows \in Corpora
  /\ req = [r \in Reqs |-> IdleReq]
  /\ aut = [a \in Autos |-> IdleAuto]

AutoStep(a) ==
  \/ \E inp \in AutoRuns : AutoStart(a, inp)
  \/ AutoLoadDone(a)
  \/ AutoOpened(a)
  \/ AutoInferDone(a)
  \/ AutoInsertCreated(a)
  \/ AutoInsertAdded(a)
  \/ AutoFails(a)

NextAuto ==
  \/ Tick
  \/ \E a \in Autos : AutoStep(a)

SpecAuto == InitAuto /\ [][NextAuto]_vars

\* every backend call of a run resolves or rejects, and main goes on
FairAuto == SpecAuto /\ \A a \in Autos : WF_vars(AutoStep(a))

\* ------------------------------------------------ the Embedder called directly
\* the texts a caller hands to embed(): the empty text and a text
EmbedTexts == { <<>>, <<"x">> }

\* a caller without the validation of retrieveMemory calls
\* this.embedder.embed(text) and searches with the vector it gets
EmbedDirect(r, text) ==
  /\ req[r].pc = "idle"
  /\ EmbedCall(r, [IdleReq EXCEPT !.tool = "retrieve_memory",
                                  !.args = [NoArgs EXCEPT !.query = text]])
  /\ UNCHANGED <<now, faults, serverVars, storeVars, diskVars, aut>>

NextEmbed ==
  \/ Tick
  \/ \E r \in Reqs : \E text \in EmbedTexts : EmbedDirect(r, text)
  \/ \E l \in loads : LazyLoadDone(l)
  \/ \E l \in loads : LazyLoadFail(l)
  \/ \E r \in Reqs : EmbedResume(r)
  \/ \E r \in Reqs : InferDone(r)
  \/ \E r \in Reqs : CallFails(r)

\* the server of InitLazy, whose embedder has no model yet and whose store
\* has no table, so that a search answers at once
SpecEmbed == InitLazy /\ [][NextEmbed]_vars

\* ------------------------------------------------------ loading the config
\* config files: auto-index on; a model and auto-index off; keys that
\* loadConfig sets itself; an empty file; a comment, an indented line
\* outside a section, a quoted value and a number
FileOn == << Line(0, "auto_index", <<"t","r","u","e">>) >>

FileModel ==
  << Line(0, "embeddings", <<>>), Line(2, "path", <<"m">>),
     Line(0, "auto_index", <<"F","a","l","s","e">>) >>

FileDir == << Line(0, "data_dir", <<"/","d">>), Line(0, "source", <<"s">>) >>

FileOdd ==
  << Comment, Line(2, "path", <<"m">>),
     Line(0, "auto_index", <<"\"","t","r","u","e","\"">>), Line(0, "n", <<"0","7">>) >>

ConfigFiles == { FileOn, FileModel, FileDir, <<>>, FileOdd }

\* the file systems: each of the two config files is absent or is one of
\* the files above
FileSystems ==
  { [cwd |-> d, files |-> p \cup u] :
      d \in WorkDirs,
      p \in {{}} \cup { { <<ConfigFile("project"), f>> } : f \in ConfigFiles },
      u \in {{}} \cup { { <<ConfigFile(Home), f>> } : f \in ConfigFiles } }

InitConfig ==
  /\ now = 0
  /\ faults = 0
  /\ initialized = FALSE
  /\ srvEmbedder = 0
  /\ srvStore = 0
  /\ model = [o \in Objs |-> FALSE]
  /\ initPromise = [o \in Objs |-> 0]
  /\ loads = {}
  /\ loadCount = [o \in Objs |-> 0]
  /\ db = [o \in Objs |-> FALSE]
  /\ table = [o \in Objs |-> FALSE]
  /\ dbTable = FALSE
  /\ rows = <<>>
  /\ req = [r \in Reqs |-> IdleReq]
  /\ aut \in [Autos -> { [IdleAuto EXCEPT !.files = fs] : fs \in FileSystems }]

\* `const config = loadConfig()` of main, and the value main tests next
ConfigLoad(a) ==
  /\ aut[a].pc = "idle"
  /\ aut' = [aut EXCEPT ![a] =
               [@ EXCEPT !.pc = "config", !.config = loadConfig(aut[a].files),
                         !.auto_index = AutoIndexOn(loadConfig(aut[a].files))]]
  /\ UNCHANGED <<now, faults, serverVars, embedderVars, storeVars, diskVars, req>>

NextConfig ==
  \/ Tick
  \/ \E a \in Autos : ConfigLoad(a)

SpecConfig == InitConfig /\ [][NextConfig]_vars

\* ---------------------------------- a server with records of two projects
\* two exchanges about x, the second about z too
ContentNear ==
  HumanPrefix \o <<"x">> \o AssistantPrefix \o <<"x">> \o Newline
    \o HumanPrefix \o <<"x">> \o AssistantPrefix \o <<"z">>

\* a table with two stored exchanges of the default project followed by the
\* auto-indexed exchange of project x
FilterCorpus ==
  Written(CorpusStore([NoArgs EXCEPT !.content = ContentNear]) \o CorpusAuto, Earlier)

\* retrieves at threshold 0 and 0.5 for one, two and five results, without
\* a project filter, for project x and for the default project
FilterCalls ==
  { Call("retrieve_memory",
         [NoArgs EXCEPT !.query = q, !.n_results = n, !.threshold = t, !.project = p]) :
      q \in {<<"x">>, <<"x", "z">>}, n \in {1, 2, 5}, t \in {0, Unit \div 2},
      p \in {<<>>, ProjectX, DefaultProject} }

InitFilter ==
  /\ now = 0
  /\ faults = 0
  /\ initialized = TRUE
  /\ srvEmbedder = Earlier
  /\ srvStore = Earlier
  /\ model = [o \in Objs |-> o = Earlier]
  /\ initPromise = [o \in Objs |-> 0]
  /\ loads = {}
  /\ loadCount = [o \in Objs |-> IF o = Earlier THEN 1 ELSE 0]
  /\ db = [o \in Objs |-> o = Earlier]
  /\ table = [o \in Objs |-> o = Earlier]
  /\ dbTable = TRUE
  /\ rows \in Corpora \cup {FilterCorpus}
  /\ req = [r \in Reqs |-> IdleReq]
  /\ aut = [a \in Autos |-> IdleAuto]

NextFilter ==
  \/ Tick
  \/ \E r \in Reqs : \E c \in FilterCalls : Arrive(r, c)
  \/ \E r \in Reqs : InferDone(r)
  \/ \E r \in Reqs : SearchDone(r)
  \/ \E r \in Reqs : CallFails(r)

SpecFilter == InitFilter /\ [][NextFilter]_vars

\* ------------------------------------------------------ the chunker's inputs
\* the greatest number of blocks of the inputs built from every block
MaxBlocks == 3

\* A block of a conversation: a role label at the start of a line, a colon
\* and the body, the text up to the next label.
Block(label, body) == [label |-> label, body |-> body]
RenderBlock(b) == b.label \o <<":">> \o b.body
Render(bs) == Join([i \in 1..Len(bs) |-> RenderBlock(bs[i])], <<"\n">>)

HumanLabel == <<"H","u","m","a","n">>
AssistantLabel == <<"A","s","s","i","s","t","a","n","t">>

\* bodies: nothing; a blank; a line of white space; a text; a text on the
\* next line; a text of two lines
Bodies ==
  { <<>>, <<" ">>, <<"\n", " ">>, <<" ", "x">>, <<"\n", "y">>, <<" ", "x", "\n", "z">> }

Blocks == { Block(l, b) : l \in {HumanLabel, AssistantLabel}, b \in Bodies }

\* two alternating conversations of more than MaxBlocks blocks, the second
\* with an answer at its start and an unanswered question at its end; labels
\* in other spellings; a question of more than 200 characters
LongLists ==
  { << Block(HumanLabel, <<" ", "x">>), Block(AssistantLabel, <<" ", "y">>),
            Block(HumanLabel, <<"\n", "z">>), Block(AssistantLabel, <<" ", "x", "\n", "z">>) >>,
         << Block(AssistantLabel, <<" ", "z">>),
            Block(HumanLabel, <<" ", "x">>), Block(AssistantLabel, <<" ", "y">>),
            Block(HumanLabel, <<" ", "z">>), Block(AssistantLabel, <<" ", "x">>),
            Block(HumanLabel, <<" ", "y">>) >>,
         << Block(<<"u","s","e","r">>, <<" ", "x">>),
            Block(<<"C","L","A","U","D","E">>, <<" ", "y">>) >>,
         << Block(HumanLabel, <<" ">> \o Repeat("x", QuestionMax + 1)),
            Block(AssistantLabel, <<" ", "y">>) >> }

\* every conversation of up to MaxBlocks blocks, and the conversations above
BlockLists == UNION { [1..n -> Blocks] : n \in 1..MaxBlocks } \cup LongLists

\* inputs without a role marker: free text, a label without its colon, a
\* label that is not at the start of its line
PlainInputs ==
  { <<"x">>, <<"x", "\n", "y">>, HumanLabel \o <<" ", "x">>,
    <<" ">> \o HumanLabel \o <<":", " ", "x">> }

ChunkInputs == { Render(bs) : bs \in BlockLists } \cup PlainInputs

\* chunkConversation(content) is called; a second call is given the content
\* of the first
ChunkRun(r, content) ==
  /\ req[r].pc = "idle"
  /\ IF r = 1 THEN TRUE ELSE req[r - 1].pc = "chunked"
  /\ req' = [req EXCEPT ![r] =
               [IdleReq EXCEPT !.pc = "chunked", !.tool = "store_memory",
                               !.args = [NoArgs EXCEPT !.content = content],
                               !.chunks = chunkConversation(content)]]
  /\ UNCHANGED <<now, faults, serverVars, embedderVars, storeVars, diskVars, aut>>

NextChunk ==
  \E r \in Reqs :
    /\ req[r].pc = "idle"
    /\ \E content \in (IF r = 1 THEN ChunkInputs ELSE {req[r - 1].args.content}) :
         ChunkRun(r, content)

SpecChunk == InitLazy /\ [][NextChunk]_vars

\* ------------------------------------------- deletes with quotes in values
Quote == <<"'">>
ProjectY == <<"y">>
Or(column) == <<" ", "O", "R", " ">> \o column

\* the documents a store call made at time t inserts
StoredAt(a, t) ==
  LET cs == StoreChunks(a)
  IN [i \in 1..Len(cs) |->
        StoreDocument(ToISOString(t), i - 1, cs[i], ModelCall(cs[i].text), a)]

\* a table with a record of project x, one of the project x' stored at time
\* 0 and one of project y stored at time 1
QuoteCorpus ==
  Written(CorpusAuto
            \o StoredAt([NoArgs EXCEPT !.content = ContentOne,
                                       !.project = ProjectX \o Quote], 0)
            \o StoredAt([NoArgs EXCEPT !.content = ContentOne, !.project = ProjectY], 1),
          Earlier)

\* values a caller puts into a delete: a value as it is, with a quote after
\* or before it, with two quotes, a quote alone, and values that would
\* close the literal and go on with the expression
QuoteProjects ==
  { ProjectX, ProjectX \o Quote, Quote \o ProjectX, ProjectX \o Quote \o Quote, Quote,
    ProjectX \o Quote \o Or(<<"p","r","o","j","e","c","t"," ","="," ">>) \o Quote \o ProjectY,
    ProjectY \o Quote \o Or(Quote) \o Quote \o <<" ","="," ">> \o Quote }

QuoteTimes ==
  { ToISOString(1), ToISOString(1) \o Quote, Quote,
    ToISOString(0) \o Quote
      \o Or(<<"t","i","m","e","s","t","a","m","p"," ","<"," ">>) \o Quote \o ToISOString(2) }

QuoteIds(rs) ==
  UNION { { <<x>>, <<x \o Quote>>, <<Quote \o x, x>>,
            <<x \o Quote \o <<",", " ">> \o Quote \o y>> } :
          x \in KnownIds(rs), y \in KnownIds(rs) }

QuoteCalls(rs) ==
  { Call("delete_memory", [NoArgs EXCEPT !.project = p]) : p \in QuoteProjects }
  \cup { Call("delete_memory", [NoArgs EXCEPT !.before = t]) : t \in QuoteTimes }
  \cup { Call("delete_memory", [NoArgs EXCEPT !.ids = SomeIds(ids)]) : ids \in QuoteIds(rs) }

InitQuote ==
  /\ now = 0
  /\ faults = 0
  /\ initialized = TRUE
  /\ srvEmbedder = Earlier
  /\ srvStore = Earlier
  /\ model = [o \in Objs |-> o = Earlier]
  /\ initPromise = [o \in Objs |-> 0]
  /\ loads = {}
  /\ loadCount = [o \in Objs |-> IF o = Earlier THEN 1 ELSE 0]
  /\ db = [o \in Objs |-> o = Earlier]
  /\ table = [o \in Objs |-> o = Earlier]
  /\ dbTable = TRUE
  /\ rows = QuoteCorpus
  /\ req = [r \in Reqs |-> IdleReq]
  /\ aut = [a \in Autos |-> IdleAuto]

\* the clock stays where it is: no step of a delete reads it
NextQuote ==
  \/ \E r \in Reqs : \E c \in QuoteCalls(rows) : Arrive(r, c)
  \/ \E r \in Reqs : DeleteCounted(r)
  \/ \E r \in Reqs : DeleteExecuted(r)
  \/ \E r \in Reqs : DeleteDone(r)
  \/ \E r \in Reqs : CallFails(r)

SpecQuote == InitQuote /\ [][NextQuote]_vars

\* ================================================================== claims
LazyLoadsOf(e) == {l \in loads : l.emb = e /\ l.kind = "lazy"}
PendingOn(e) ==
  {r \in Reqs : req[r].pc = "embed_wait" /\ req[r].emb = e /\ req[r].wake = "pending"}
WokenOn(e) ==
  {r \in Reqs : req[r].pc = "embed_wait" /\ req[r].emb = e /\ req[r].wake = "ok"}

\* the embed() call of request r has returned a vector in this step
ReturnsVector(r) ==
  IF req[r].tool = "store_memory"
  THEN /\ Len(req'[r].docs) = Len(req[r].docs) + 1
       /\ req'[r].docs[Len(req'[r].docs)].vector = ModelCall(EmbedText(req[r]))
  ELSE req'[r].qvec = ModelCall(EmbedText(req[r]))

\* C1: the embed() calls issued on one Embedder before its model is loaded
\* start one load: at most one load started by ensureInitialized is in
\* flight, every call that waits awaits that load, and no load starts while
\* an initPromise is pending.  When the load succeeds every waiting call
\* is woken, goes on to the model call and, unless the model call itself
\* rejects, returns the vector of its text.
C1_SingleLoad ==
  /\ [](\A e \in Objs :
          /\ Cardinality(LazyLoadsOf(e)) <= 1
          /\ PendingOn(e) # {} =>
               /\ LazyLoadsOf(e) # {}
               /\ \A l \in LazyLoadsOf(e) : initPromise[e] = l.by)
  /\ [][ /\ \A e \in Objs :
              /\ (~model[e] /\ initPromise[e] # 0) => loadCount'[e] = loadCount[e]
              /\ (LazyLoadsOf(e) # {} /\ LazyLoadsOf(e)' = {} /\ initPromise'[e] # 0) =>
                   /\ model'[e]
                   /\ \A r \in PendingOn(e) : req'[r].wake = "ok"
         /\ \A r \in Reqs :
              /\ (req[r].pc = "embed_wait" /\ req[r].wake = "ok" /\ req'[r] # req[r]) =>
                   req'[r].pc = "embed_infer"
              /\ (req[r].pc = "embed_infer" /\ req'[r] # req[r] /\ ~req'[r].threw) =>
                   ReturnsVector(r)
       ]_vars

\* two embed() calls woken by the one load their Embedder has made
C1_Witness ==
  \E e \in Objs : loadCount[e] = 1 /\ model[e] /\ Cardinality(WokenOn(e)) >= 2

\* C2: an initialization of an Embedder that is made while an earlier one is
\* in flight starts no second model load
C2_NoSecondLoad ==
  [][\A e \in Objs : (\E l \in loads : l.emb = e) => loadCount'[e] = loadCount[e]]_vars

\* C3: as long as no load has failed, the server creates one Embedder and
\* one VectorStore and starts one model load
C3_OneInitialization ==
  faults = 0 =>
    /\ Cardinality({r \in Reqs : req[r].inited}) <= 1
    /\ \A r1, r2 \in Reqs : (loadCount[r1] > 0 /\ loadCount[r2] > 0) => r1 = r2
    /\ \A r \in Reqs : loadCount[r] <= 1

\* C4: when a load that embed() calls await fails, each of them fails, the
\* initPromise is cleared and the Embedder is un-initialized again
C4_FailedLoadResets ==
  [][\A e \in Objs :
       (initPromise[e] # 0 /\ initPromise'[e] = 0) =>
          /\ ~model'[e]
          /\ \A r \in PendingOn(e) : req'[r].wake = "fail"]_vars

IsFailure(res) ==
  /\ res.tag = "result"
  /\ "success" \in DOMAIN res
  /\ ~res.success
  /\ "error" \in DOMAIN res
  /\ Len(res.error) > 0

\* C5: every tool request that ends hands the host a structured result,
\* and a request in which a call of the embedding backend or of the vector
\* store failed ends with {success: false, error}
C5_StructuredResult ==
  [][\A r \in Reqs :
       (req[r].pc # "done" /\ req'[r].pc = "done") =>
          /\ req'[r].result.tag = "result"
          /\ (req'[r].threw \/ faults' # faults) => IsFailure(req'[r].result)]_vars

\* the store request r returns success in this step
StoreSucceeds(r) ==
  /\ req[r].pc # "done"
  /\ req'[r].pc = "done"
  /\ req'[r].tool = "store_memory"
  /\ req'[r].result.success

\* C6: a store request that succeeds on content of N chunks appends N rows
\* and reports chunks_stored = N; row i (from 0, in chunk order) has the id
\* "{timestamp}-{i}", the text and question of chunk i, the timestamp that
\* is returned, the project given or "default", and the tags given joined
\* by commas or "conversation"
C6_StoreRecords ==
  [][\A r \in Reqs :
       StoreSucceeds(r) =>
         LET a == req'[r].args
             cs == req[r].chunks
             N == Len(cs)
             ts == req'[r].result.timestamp
             base == Len(rows)
         IN /\ cs = StoreChunks(a)
            /\ N > 0
            /\ req'[r].result.chunks_stored = N
            /\ Len(rows') = base + N
            /\ SubSeq(rows', 1, base) = rows
            /\ \A i \in 1..N :
                 LET d == rows'[base + i].doc
                 IN /\ d.id = ts \o <<"-">> \o Dec(i - 1)
                    /\ d.timestamp = ts
                    /\ d.text = cs[i].text
                    /\ d.question = cs[i].question
                    /\ d.project = IF a.project # <<>> THEN a.project
                                   ELSE <<"d","e","f","a","u","l","t">>
                    /\ d.tags = IF a.tags # <<>> THEN Join(a.tags, <<",">>)
                                ELSE <<"c","o","n","v","e","r","s","a","t","i","o","n">>]_vars

\* a store of two chunks with a project and one with tags have succeeded
C6_Witness ==
  /\ \E r \in Reqs :
       /\ req[r].pc = "done" /\ req[r].tool = "store_memory"
       /\ req[r].result.success /\ req[r].result.chunks_stored = 2
       /\ \E i \in 1..Len(rows) :
            rows[i].call = r /\ rows[i].doc.id = StoreId(req[r].result.timestamp, 1)
  /\ \E r \in Reqs :
       /\ req[r].pc = "done" /\ req[r].tool = "store_memory"
       /\ req[r].result.success /\ req[r].args.tags # <<>>
       /\ \E i \in 1..Len(rows) : rows[i].call = r

\* the rows of the table that the call r has written
RowsOf(rs, r) == {i \in 1..Len(rs) : rs[i].call = r}

C8_UniqueIds ==
  \A i, j \in 1..Len(rows) : i # j => rows[i].doc.id # rows[j].doc.id

\* C9: a delete with ids = [x], x the id of a row of the table, that no load
\* or backend failure and no other delete disturbs, returns success with
\* deleted_count = 1
C9_DeleteById ==
  \A r \in Reqs :
    ( /\ req[r].pc = "done"
      /\ req[r].tool = "delete_memory"
      /\ DeleteBranch(req[r].args) = "ids"
      /\ faults = 0
      /\ \A q \in Reqs \ {r} : req[q].tool # "delete_memory" )
    => /\ req[r].result.success
       /\ req[r].result.deleted_count = 1

\* C10: a delete that passes the validation, and in which nothing throws,
\* executes the deletion of one of the four criteria
C10_OnePredicate ==
  \A r \in Reqs :
    ( /\ req[r].pc = "done"
      /\ req[r].tool = "delete_memory"
      /\ ~req[r].threw
      /\ ~DeleteInvalid(req[r].args) )
    => DeleteBranch(req[r].args) \in {"all", "ids", "project", "before"}

\* the call names no record, no project, no time bound and not all
NoCriterion(a) ==
  /\ ~a.all
  /\ ~a.ids.def \/ Len(a.ids.val) = 0
  /\ a.project = <<>>
  /\ a.before = <<>>

ValidationFailure(res) ==
  res = Failure(<<"At least one deletion criteria must be specified">>)

\* C11: a delete in which nothing throws returns the validation failure
\* exactly when it names no deletion criterion, and one that returns success
\* names a criterion whose deletion it has executed
C11_ValidationIffNoCriterion ==
  \A r \in Reqs :
    (req[r].pc = "done" /\ req[r].tool = "delete_memory" /\ ~req[r].threw) =>
       /\ NoCriterion(req[r].args) <=> ValidationFailure(req[r].result)
       /\ req[r].result.success =>
            DeleteBranch(req[r].args) \in {"all", "ids", "project", "before"}

\* the deleteMemory body of request r runs and returns in this step, with
\* no backend failure, while the database holds no table
DeletesWithoutTable(r) ==
  /\ ~dbTable
  /\ faults' = faults
  /\ req[r].pc # "done"
  /\ req'[r].pc = "done"
  /\ req'[r].tool = "delete_memory"
  /\ initialized'

\* C12: while the table has not been created, a delete by ids, by project
\* or by before returns {success: false, error} from the catch of
\* deleteMemory, a delete with all = true returns success with
\* deleted_count 0, and both leave the database as it was
C12_DeleteWithoutTable ==
  [][\A r \in Reqs :
       DeletesWithoutTable(r) =>
         LET a == req'[r].args
             res == req'[r].result
         IN /\ <<dbTable', rows'>> = <<dbTable, rows>>
            /\ res.tag = "result"
            /\ DeleteBranch(a) \in {"ids", "project", "before"} =>
                 /\ IsFailure(res)
                 /\ res = DeleteCatch(<<"Table not initialized">>)
            /\ DeleteBranch(a) = "all" => res = DeleteOk(0, a)]_vars

\* without a table, a delete by ids has failed and a delete with all = true
\* has returned 0
C12_Witness ==
  /\ ~dbTable
  /\ \E r \in Reqs :
       /\ req[r].pc = "done" /\ req[r].tool = "delete_memory"
       /\ DeleteBranch(req[r].args) = "ids" /\ IsFailure(req[r].result)
  /\ \E r \in Reqs :
       /\ req[r].pc = "done" /\ req[r].tool = "delete_memory"
       /\ DeleteBranch(req[r].args) = "all" /\ req[r].result = DeleteOk(0, req[r].args)

\* request r's retrieveMemory, given a query that passes validation,
\* returns in this step without an exception having been caught
RetrieveReturns(r) ==
  /\ req[r].pc # "done"
  /\ req'[r].pc = "done"
  /\ req'[r].tool = "retrieve_memory"
  /\ Len(Trim(req'[r].args.query)) > 0
  /\ ~req'[r].threw

\* what retrieveMemory returns when its search consults the rows rs
RetrieveFrom(rs, a) ==
  RetrieveOk(FormatResults(VectorSearch(rs, ModelCall(a.query),
                                        2 * ClampResults(a.n_results)), a),
             a.query)

\* C13: a retrieve with a valid query returns no results, total_found 0 and
\* no error while the table does not exist, and once the table exists its
\* search consults the table, whichever store handle the server holds
C13_SearchConsultsTable ==
  [][\A r \in Reqs :
       RetrieveReturns(r) =>
         IF dbTable
         THEN req'[r].result = RetrieveFrom(rows, req'[r].args)
         ELSE req'[r].result = RetrieveOk(<<>>, req'[r].args.query)]_vars

\* the search of request r's retrieveMemory resolves in this step and the
\* filtered, formatted results are returned
RetrieveSearched(r) ==
  /\ req[r].pc = "search"
  /\ req'[r].pc = "done"
  /\ ~req'[r].threw

\* the distance between two scores of four decimal places
ScoreStep == Unit \div RoundScale

\* the number of four decimal places nearest to a similarity, a half upwards
IsRounded(score, sim) ==
  /\ score % ScoreStep = 0
  /\ 2 * (score - sim) <= ScoreStep
  /\ 2 * (sim - score) < ScoreStep

\* a returned result is the candidate c, which passes the threshold and the
\* project filter of the call a, with the similarity as its score, exactly
\* or rounded
Fits(out, c, a, exact) ==
  /\ <<out.id, out.question, out.text, out.timestamp, out.project, out.tags>>
       = <<c.id, c.question, c.text, c.timestamp, c.project, c.tags>>
  /\ Similarity(c.score) >= ClampThreshold(a.threshold)
  /\ a.project # <<>> => out.project = a.project
  /\ IF exact THEN out.score = Similarity(c.score)
     ELSE IsRounded(out.score, Similarity(c.score))

\* the results are candidates that fit, in the order of the candidates
RECURSIVE Embeds(_, _, _, _)
Embeds(res, cand, a, exact) ==
  IF res = <<>> THEN TRUE
  ELSE IF cand = <<>> THEN FALSE
  ELSE IF Fits(Head(res), Head(cand), a, exact)
  THEN Embeds(Tail(res), Tail(cand), a, exact)
  ELSE Embeds(res, Tail(cand), a, exact)

\* C14 as stated: every result of a retrieve is a candidate of the search
\* with similarity at least the clamped threshold and the project of the
\* filter, the results keep the order of the candidates, and the score of a
\* result equals the similarity
C14_ScoreIsSimilarity ==
  [][\A r \in Reqs :
       RetrieveSearched(r) =>
         Embeds(req'[r].result.results,
                VectorSearch(rows, req[r].qvec, req[r].limit), req[r].args, TRUE)]_vars

\* C14 amended: as above, with the score of a result equal to the
\* similarity rounded to four decimal places
C14_ScoreIsRoundedSimilarity ==
  [][\A r \in Reqs :
       RetrieveSearched(r) =>
         Embeds(req'[r].result.results,
                VectorSearch(rows, req[r].qvec, req[r].limit), req[r].args, FALSE)]_vars

\* a retrieve with a project filter and a threshold above 0 has dropped a
\* row and returned a result whose score is not the similarity of its row
C14_Witness ==
  \E r \in Reqs :
    /\ req[r].pc = "done" /\ req[r].tool = "retrieve_memory" /\ ~req[r].threw
    /\ req[r].args.project # <<>>
    /\ ClampThreshold(req[r].args.threshold) > 0
    /\ "results" \in DOMAIN req[r].result
    /\ Len(req[r].result.results) < Len(rows)
    /\ \E i \in 1..Len(req[r].result.results) :
         \E j \in 1..Len(rows) :
           /\ rows[j].doc.id = req[r].result.results[i].id
           /\ req[r].result.results[i].score
                # Similarity(Distance(req[r].qvec, rows[j].doc.vector))

\* the step in which request r's retrieveMemory calls search
SearchAsked(r) ==
  /\ req[r].pc = "embed_infer"
  /\ req[r].tool = "retrieve_memory"
  /\ req'[r].pc \in {"search", "done"}
  /\ ~req'[r].threw

\* C15: whatever n_results and threshold a retrieve is given, it asks the
\* search for exactly twice the n_results clamped into [1,100], it keeps the
\* candidates whose similarity is at least the threshold clamped into [0,1],
\* it returns at most the clamped n_results results, and total_found is the
\* number of results returned
C15_ClampedRetrieve ==
  [][\A r \in Reqs :
       LET a == req[r].args
           n == IF a.n_results < 1 THEN 1 ELSE IF a.n_results > 100 THEN 100
                ELSE a.n_results
           t == IF a.threshold < 0 THEN 0 ELSE IF a.threshold > Unit THEN Unit
                ELSE a.threshold
       IN /\ SearchAsked(r) => req'[r].limit = 2 * n
          /\ RetrieveSearched(r) =>
               LET res == req'[r].result
                   cand == VectorSearch(rows, req[r].qvec, 2 * n)
                   pass == { i \in 1..Len(cand) :
                               /\ Unit - cand[i].score >= t
                               /\ a.project = <<>> \/ cand[i].project = a.project }
               IN /\ Len(res.results) <= n
                  /\ Len(res.results) = IF Cardinality(pass) < n THEN Cardinality(pass)
                                        ELSE n
                  /\ res.total_found = Len(res.results)]_vars

\* retrieves with n_results 0 and 101 and with thresholds below 0 and above
\* 1 have returned, one with as many results as the clamped n_results and
\* one with a result that is not among the first n_results candidates
C15_Witness ==
  /\ \E r \in Reqs :
       /\ req[r].pc = "done" /\ req[r].tool = "retrieve_memory" /\ ~req[r].threw
       /\ req[r].args.n_results = 0 /\ req[r].limit = 2
       /\ req[r].args.project # <<>>
       /\ Len(req[r].result.results) = 1
       /\ req[r].result.results[1].id
            # VectorSearch(rows, req[r].qvec, 1)[1].id
  /\ \E r \in Reqs :
       /\ req[r].pc = "done" /\ req[r].tool = "retrieve_memory" /\ ~req[r].threw
       /\ req[r].limit = 200
       /\ req[r].result.total_found > 0

\* requests r and s are retrieves that have returned results for the same
\* query, n_results and project filter, r at a threshold at least that of s,
\* and the table holds the rows it held before either request
SameButThreshold(r, s) ==
  /\ \A i \in 1..Len(rows) : rows[i].call = Earlier
  /\ req[r].pc = "done" /\ req[s].pc = "done"
  /\ req[r].tool = "retrieve_memory" /\ req[s].tool = "retrieve_memory"
  /\ ~req[r].threw /\ ~req[s].threw
  /\ "results" \in DOMAIN req[r].result
  /\ "results" \in DOMAIN req[s].result
  /\ req[r].args.query = req[s].args.query
  /\ req[r].args.n_results = req[s].args.n_results
  /\ req[r].args.project = req[s].args.project
  /\ req[r].args.threshold >= req[s].args.threshold

\* the records of a list of results
ResultSet(results) == { results[i] : i \in 1..Len(results) }

\* C16: of two retrieves of the same query, n_results and project filter on
\* the same stored corpus, the one at the higher threshold returns a subset
\* of the records the one at the lower threshold returns
C16_ThresholdMonotone ==
  \A r, s \in Reqs :
    SameButThreshold(r, s) =>
      ResultSet(req[r].result.results) \subseteq ResultSet(req[s].result.results)

\* a retrieve at threshold 0.5 has returned a record and not another that
\* the same retrieve at threshold 0.1 has returned
C16_Witness ==
  \E r, s \in Reqs :
    /\ SameButThreshold(r, s)
    /\ req[r].args.threshold = Unit \div 2
    /\ req[s].args.threshold = Unit \div 10
    /\ ResultSet(req[r].result.results) # {}
    /\ ResultSet(req[r].result.results) # ResultSet(req[s].result.results)

\* row j of the table is a pair that a store request has chunked from its
\* content and inserted, and its question is the text qtext
StoredPair(j, qtext) ==
  /\ rows[j].call \in Reqs
  /\ req[rows[j].call].tool = "store_memory"
  /\ req[rows[j].call].args.chunk
  /\ rows[j].doc.question = qtext

\* C17: a retrieve at threshold 0 whose query is the question of a pair that
\* a store call has inserted returns that pair among its results, with a
\* score at least the similarity of every record of another question
C17_StoreRoundTrip ==
  [][\A r \in Reqs :
       (/\ RetrieveSearched(r)
        /\ ClampThreshold(req[r].args.threshold) = 0
        /\ req[r].args.project = <<>>) =>
          \A j \in 1..Len(rows) :
            StoredPair(j, req[r].args.query) =>
              \E i \in 1..Len(req'[r].result.results) :
                LET out == req'[r].result.results[i]
                IN /\ out.id = rows[j].doc.id
                   /\ out.text = rows[j].doc.text
                   /\ \A k \in 1..Len(rows) :
                        rows[k].doc.question # req[r].args.query =>
                          out.score >= RoundScore(Similarity(
                                         Distance(req[r].qvec, rows[k].doc.vector)))]_vars

\* C18: every record in the table has a text that starts with "Human: " and
\* a question of at most 200 characters, whether store with chunk=true,
\* store with chunk=false or auto-index has inserted it
C18_RecordShape ==
  \A j \in 1..Len(rows) :
    /\ StartsWith(rows[j].doc.text, HumanPrefix)
    /\ Len(rows[j].doc.question) <= QuestionMax

\* the rows of short are rows of long, unchanged and in the same order
RECURSIVE IsSubSeq(_, _)
IsSubSeq(short, long) ==
  IF short = <<>> THEN TRUE
  ELSE IF long = <<>> THEN FALSE
  ELSE IF Head(short) = Head(long) THEN IsSubSeq(Tail(short), Tail(long))
  ELSE IsSubSeq(short, Tail(long))

\* long is short followed by further rows
IsExtension(long, short) ==
  Len(long) > Len(short) /\ SubSeq(long, 1, Len(short)) = short

\* a request of the tool takes a step
Moves(tool) == \E r \in Reqs : req'[r] # req[r] /\ req'[r].tool = tool

\* C19: records are immutable.  A step in which the table changes is a step
\* of a store request or of an auto-index process that adds rows after the
\* unchanged rows, or a step of a delete request that removes rows and
\* leaves the others unchanged; a step of a retrieve or a get_stats request
\* leaves the table as it is
C19_RecordsImmutable ==
  [][/\ rows' # rows =>
          \/ /\ IsExtension(rows', rows)
             /\ Moves("store_memory") \/ aut' # aut
          \/ /\ IsSubSeq(rows', rows)
             /\ Moves("delete_memory")
     /\ Moves("retrieve_memory") \/ Moves("get_stats") => rows' = rows]_vars

\* a delete has removed a row of the table and has left another
C19_Witness ==
  /\ rows # <<>>
  /\ \E r \in Reqs :
       /\ req[r].pc = "done" /\ req[r].tool = "delete_memory"
       /\ req[r].result.success
       /\ req[r].result.deleted_count > 0

\* the text is empty or has white space only
WhiteOnly(s) == \A i \in 1..Len(s) : s[i] \in WS

\* request r returns in this step without a caught exception, and it is a
\* store with empty or white-space content or a retrieve with an empty or
\* white-space query
BlankReturns(r) ==
  /\ req[r].pc # "done"
  /\ req'[r].pc = "done"
  /\ ~req'[r].threw
  /\ \/ req'[r].tool = "store_memory" /\ WhiteOnly(req'[r].args.content)
     \/ req'[r].tool = "retrieve_memory" /\ WhiteOnly(req'[r].args.query)

\* C20: a store with empty or white-space content and a retrieve with an
\* empty or white-space query return {success: false} with the validation
\* error as the first thing storeMemory and retrieveMemory do: no embed call
\* has been made or is made for the request, and the Embedder and the table
\* stay as they are
C20_BlankRejected ==
  [][\A r \in Reqs :
       BlankReturns(r) =>
         /\ req[r].pc \in {"idle", "vs_tables"}
         /\ req'[r].result =
              IF req'[r].tool = "store_memory"
              THEN [tag |-> "result", success |-> FALSE,
                    error |-> <<"Content cannot be empty">>]
              ELSE [tag |-> "result", success |-> FALSE,
                    error |-> <<"Query cannot be empty">>]
         /\ UNCHANGED <<model, initPromise, loads, loadCount>>
         /\ UNCHANGED <<dbTable, rows>>]_vars

\* a store of white space and a retrieve of an empty query have been
\* rejected on a server whose table holds rows
C20_Witness ==
  /\ rows # <<>>
  /\ \E r \in Reqs :
       /\ req[r].pc = "done" /\ req[r].tool = "store_memory"
       /\ req[r].args.content = <<" ">>
       /\ IsFailure(req[r].result) /\ ~req[r].threw
  /\ \E r \in Reqs :
       /\ req[r].pc = "done" /\ req[r].tool = "retrieve_memory"
       /\ req[r].args.query = <<>>
       /\ IsFailure(req[r].result) /\ ~req[r].threw

SizeFailure(tool) ==
  IF tool = "store_memory"
  THEN [tag |-> "result", success |-> FALSE,
        error |-> <<"Content too large (max 100KB)">>]
  ELSE [tag |-> "result", success |-> FALSE, error |-> <<"Query too long (max 10KB)">>]

\* the string a store or a retrieve request checks, and its greatest length
Checked(rec) == IF rec.tool = "store_memory" THEN rec.args.content ELSE rec.args.query
Allowed(rec) == IF rec.tool = "store_memory" THEN 100000 ELSE 10000

\* C21: a store whose content has more than 100,000 characters and a
\* retrieve whose query has more than 10,000 are rejected with the size
\* error before any embedding; content of exactly 100,000 characters and a
\* query of exactly 10,000 pass the check, are embedded, and the call
\* succeeds when nothing throws
C21_LengthBoundary ==
  \A r \in Reqs :
    (req[r].tool \in {"store_memory", "retrieve_memory"} /\ req[r].pc # "idle"
       /\ Len(Trim(Checked(req[r]))) > 0) =>
      IF Len(Checked(req[r])) > Allowed(req[r])
      THEN /\ req[r].pc = "done"
           /\ req[r].result = SizeFailure(req[r].tool)
           /\ req[r].qvec = {}
           /\ \A j \in 1..Len(rows) : rows[j].call # r
      ELSE /\ req[r].result # SizeFailure(req[r].tool)
           /\ (req[r].pc = "done" /\ ~req[r].threw) =>
                IF req[r].tool = "store_memory"
                THEN /\ req[r].result.success
                     /\ \E j \in 1..Len(rows) :
                          rows[j].call = r /\ rows[j].doc.text = req[r].args.content
                ELSE "results" \in DOMAIN req[r].result

\* a store of exactly 100,000 characters has succeeded and a retrieve of
\* 10,001 characters has been rejected, or a retrieve of exactly 10,000
\* characters has returned results and a store of 100,001 has been rejected
C21_Witness ==
  \E r, s \in Reqs :
    /\ req[r].pc = "done" /\ req[s].pc = "done"
    /\ Len(Checked(req[r])) = Allowed(req[r])
    /\ Len(Checked(req[s])) = Allowed(req[s]) + 1
    /\ req[r].tool # req[s].tool
    /\ ~req[r].threw
    /\ ~IsFailure(req[r].result)
    /\ req[s].result = SizeFailure(req[s].tool)

\* request r is a store with chunk=true whose content is not blank and not
\* too long and from which the chunker produces no chunk, and it returns in
\* this step
ChunklessReturns(r) ==
  /\ req[r].pc # "done"
  /\ req'[r].pc = "done"
  /\ ~req'[r].threw
  /\ req'[r].tool = "store_memory"
  /\ req'[r].args.chunk
  /\ Len(Trim(req'[r].args.content)) > 0
  /\ Len(req'[r].args.content) <= 100000
  /\ chunkConversation(req'[r].args.content) = <<>>

\* C22: a store with chunk=true of valid content that has no chunk returns
\* a failure whose message is neither that of empty content nor that of
\* oversize content, in the step that dispatches it: no embed call is made,
\* no model load starts and nothing is inserted
C22_NoChunksRejected ==
  [][\A r \in Reqs :
       ChunklessReturns(r) =>
         /\ req[r].pc \in {"idle", "vs_tables"}
         /\ req'[r].result.tag = "result"
         /\ ~req'[r].result.success
         /\ req'[r].result.error \notin { <<"Content cannot be empty">>,
                                          <<"Content too large (max 100KB)">> }
         /\ req'[r].qvec = {}
         /\ UNCHANGED <<model, initPromise, loads, loadCount>>
         /\ UNCHANGED <<dbTable, rows>>]_vars

\* a store with chunk=true of text without role markers has been rejected
C22_Witness ==
  \E r \in Reqs :
    /\ req[r].pc = "done" /\ req[r].tool = "store_memory" /\ ~req[r].threw
    /\ req[r].args.chunk
    /\ req[r].args.content = <<"x", "y">>
    /\ IsFailure(req[r].result)
    /\ loadCount[srvEmbedder] = 0

\* C23: an auto-index run whose input has stop_hook_active set, or for
\* which auto-indexing is not enabled in the configuration, ends at once
\* without an error, and it has loaded no model, opened no vector store and
\* inserted no record
C23_SkippedRunIsInert ==
  \A a \in Autos :
    (aut[a].pc # "idle" /\ (aut[a].stop_hook_active \/ ~aut[a].auto_index)) =>
       /\ aut[a].pc = "done"
       /\ aut[a].outcome = "skipped"
       /\ loadCount[a] = 0
       /\ ~model[a]
       /\ ~db[a] /\ ~table[a]
       /\ \A j \in 1..Len(rows) : rows[j].call # a

\* a run with stop_hook_active set, or with auto-indexing disabled, that had
\* an exchange to index has ended
C23_Witness ==
  \E a \in Autos :
    /\ aut[a].pc = "done"
    /\ aut[a].has_qa
    /\ aut[a].stop_hook_active \/ ~aut[a].auto_index
    /\ aut[a].outcome = "skipped"

\* the rows a process has written
WrittenBy(p) == { j \in 1..Len(rows) : rows[j].call = p }

\* how a run that has ended may have ended, given its input
EndsQuietly(a) ==
  /\ aut[a].outcome \in {"skipped", "indexed", "error"}
  /\ ~aut[a].valid => aut[a].outcome = "error"
  /\ (aut[a].valid /\ ~aut[a].stop_hook_active /\ aut[a].auto_index) =>
       /\ aut[a].transcript = "missing" => aut[a].outcome = "skipped"
       /\ aut[a].transcript = "unreadable" => aut[a].outcome = "error"
  /\ aut[a].outcome # "indexed" => WrittenBy(a) = {}

\* a backend call of run a fails in this step
BackendFails(a) == faults' # faults /\ aut'[a] # aut[a]

\* C24: an auto-index run always ends, and never with an error that reaches
\* the host: with invalid input, an unreadable transcript, a failed model
\* load, a failed embedding or a failed insert the catch of main ends it,
\* with a missing transcript main returns, and a run inserts at most one
\* record
C24_RunEndsQuietly ==
  /\ [](\A a \in Autos :
          /\ aut[a].pc = "done" => EndsQuietly(a)
          /\ Cardinality(WrittenBy(a)) <= 1)
  /\ [][\A a \in Autos :
          BackendFails(a) =>
            /\ aut'[a].pc = "done"
            /\ aut'[a].outcome = "error"
            /\ rows' = rows]_vars
  /\ \A a \in Autos : (aut[a].pc # "idle") ~> (aut[a].pc = "done")

\* a run with an exchange to index has ended in the catch of main after a
\* backend call failed, and has inserted nothing
C24_Witness ==
  \E a \in Autos :
    /\ aut[a].pc = "done"
    /\ aut[a].valid /\ aut[a].has_qa /\ aut[a].transcript = "read"
    /\ faults > 0
    /\ aut[a].outcome = "error"
    /\ WrittenBy(a) = {}

\* the texts of the assistant entries after entry k of a conversation
AssistantTexts(conv, k) ==
  { extractTextContent(conv[j].content) :
      j \in { i \in (k + 1)..Len(conv) : conv[i].type = "assistant" } } \ {<<>>}

\* the last assistant entry with text after entry k, 0 if there is none
FinalAssistant(conv, k) ==
  LET with == { j \in (k + 1)..Len(conv) :
                  /\ conv[j].type = "assistant"
                  /\ extractTextContent(conv[j].content) # <<>> }
  IN IF with = {} THEN 0 ELSE CHOOSE j \in with : \A i \in with : i <= j

\* run a is enabled and not re-entrant, and in its transcript the most
\* recent human entry with text that is no interruption is followed by
\* assistant text
Answered(a) ==
  LET conv == Conversation(aut[a].messages)
      k == LastUserIndex(conv)
  IN /\ aut[a].pc # "idle"
     /\ aut[a].valid /\ ~aut[a].stop_hook_active /\ aut[a].auto_index
     /\ aut[a].transcript = "read"
     /\ k # 0
     /\ AssistantTexts(conv, k) # {}

\* run a has inserted one record that holds the question and the final
\* assistant text of its transcript (the text as far as the cut of the
\* answer lets it in)
Indexed(a) ==
  LET conv == Conversation(aut[a].messages)
      k == LastUserIndex(conv)
      q == extractTextContent(conv[k].content)
      y == extractTextContent(conv[FinalAssistant(conv, k)].content)
  IN /\ Cardinality(WrittenBy(a)) = 1
     /\ \A j \in WrittenBy(a) :
          /\ Includes(rows[j].doc.text, q)
          /\ Len(y) <= MaxAnswerLength => Includes(rows[j].doc.text, y)

\* C25: an enabled run that is not re-entrant, and whose transcript has
\* assistant text after the most recent human entry with text that is no
\* interruption, ends having inserted one record with that question and
\* that answer, unless it ended in the catch of main
C25_LastExchangeIndexed ==
  \A a \in Autos :
    Answered(a) ~>
      (aut[a].pc = "done" /\ (aut[a].outcome = AutoCatch \/ Indexed(a)))

\* request r called embed("")
EmbedsEmpty(r) ==
  /\ req[r].pc # "idle"
  /\ req[r].tool = "retrieve_memory"
  /\ req[r].args.query = <<>>

\* C26: embed("") never gets as far as the model call and never hands a
\* vector to its caller: the call ends with an error, whether it found the
\* model loaded, waited for a load in flight or started the load itself
C26_EmptyTextFails ==
  \A r \in Reqs :
    EmbedsEmpty(r) =>
      /\ req[r].pc \in {"embed_wait", "done"}
      /\ req[r].pc = "done" =>
           /\ req[r].threw
           /\ IsFailure(req[r].result)

\* two calls of embed("") have failed, one of which loaded the model, so
\* that the other found it loading or loaded
C26_Witness ==
  /\ \A r \in Reqs : EmbedsEmpty(r) /\ req[r].pc = "done" /\ req[r].threw
  /\ model[srvEmbedder]
  /\ loadCount[srvEmbedder] = 1

\* config holds what the file at path holds, but for the data directory
\* and the source, which name the directory of the file and the file
FromFile(config, fs, path) ==
  LET parsed == parseYaml(Get(fs.files, path))
  IN /\ \A k \in (Keys(config) \cup Keys(parsed)) \ {"data_dir", "source"} :
          Has(config, k) /\ Has(parsed, k) /\ Get(config, k) = Get(parsed, k)
     /\ Get(config, "source") = Str(path)
     /\ Get(config, "data_dir") = Str(SubSeq(path, 1, Len(path) - 1))

InsertSettles(p) ==
  /\ faults' = faults
  /\ IF p \in Reqs
     THEN req[p].pc \in {"ins_create", "ins_add"} /\ req'[p].pc = "done"
     ELSE aut[p].pc \in {"ins_create", "ins_add"} /\ aut'[p].pc = "done"

\* C28: an insertChunks call with a batch, through the server's VectorStore
\* or that of an auto-index process, succeeds and leaves its records in the
\* table after those that were there, whether it creates the table or adds
\* to it and whatever other inserts ran since its handle was opened
C28_InsertsAllSucceed ==
  [][\A p \in Procs :
       InsertSettles(p) =>
         /\ dbTable'
         /\ IF p \in Reqs
            THEN /\ ~req'[p].threw
                 /\ rows' = rows \o Written(req[p].docs, p)
            ELSE /\ aut'[p].outcome = "indexed"
                 /\ rows' = rows \o Written(aut[p].docs, p)]_vars

\* the initialize() call that the server made on Embedder e when it created
\* it has resolved
EmbedderInitialized(e) ==
  /\ model[e]
  /\ Load(e, "direct", e) \notin loads

\* the initialize() call that the server made on VectorStore v when it
\* created it has resolved: the database is connected and the table, if
\* listed, is open
StoreInitialized(v) ==
  /\ db[v]
  /\ v \in Reqs => req[v].pc \notin {"vs_connect", "vs_tables"}

\* C29: the embedder on which a tool operation has called embed(), and the
\* vector store on which it has called an operation, have completed their
\* own initialize(), however the first requests interleave
C29_CalledObjectsInitialized ==
  \A r \in Reqs :
    /\ req[r].emb # 0 => EmbedderInitialized(req[r].emb)
    /\ req[r].vs # 0 => StoreInitialized(req[r].vs)

\* the delete call of request r returns its count in this step
DeleteReturns(r) ==
  /\ req[r].pc \in {"delall_exec", "del_count2"}
  /\ req'[r].pc = "done"
  /\ ~req'[r].threw

\* C30: the deleted_count a successful delete returns is not negative, and
\* that of a delete of everything is the number of records its
\* table.delete removed, also when inserts ran between the scan that
\* counted the rows and the step that returns
C30_DeletedCountExact ==
  [][\A r \in Reqs :
       DeleteReturns(r) =>
         /\ req'[r].result.deleted_count >= 0
         /\ req[r].pc = "delall_exec" =>
              req'[r].result.deleted_count = Len(rows) - Len(rows')]_vars

\* the rows of project p whose similarity to the vector qv is at least the
\* threshold t
RowsWithin(p, qv, t) ==
  { j \in 1..Len(rows) :
      /\ rows[j].doc.project = p
      /\ Unit - Distance(qv, rows[j].doc.vector) >= t }

\* C31: a retrieve with a project filter returns n_results results (clamped
\* into [1,100]) whenever at least that many stored records of the project
\* have a similarity of at least the threshold, and otherwise returns all
\* such records
C31_OverFetchCompensates ==
  [][\A r \in Reqs :
       (RetrieveSearched(r) /\ req[r].args.project # <<>>) =>
         LET a == req[r].args
             n == IF a.n_results < 1 THEN 1 ELSE IF a.n_results > 100 THEN 100
                  ELSE a.n_results
             t == IF a.threshold < 0 THEN 0 ELSE IF a.threshold > Unit THEN Unit
                  ELSE a.threshold
             fit == RowsWithin(a.project, req[r].qvec, t)
             res == req'[r].result.results
         IN /\ Len(res) = (IF Cardinality(fit) >= n THEN n ELSE Cardinality(fit))
            /\ \A i \in 1..Len(res) : \E j \in fit : rows[j].doc.id = res[i].id]_vars

\* a block is a human block; the text of a block
IsHuman(b) == LowerStr(b.label) \in HumanLabels
TextOf(b) == Trim(b.body)

\* the chunk of a question and an answer
PairChunk(q, a) ==
  [ text |-> <<"H","u","m","a","n",":"," ">> \o q
               \o <<"\n","A","s","s","i","s","t","a","n","t",":"," ">> \o a,
    question |-> IF Len(q) <= 200 THEN q ELSE SubSeq(q, 1, 200) ]

\* the blocks alternate between the roles and each has text
Alternating(bs) ==
  /\ \A i \in 1..Len(bs) : TextOf(bs[i]) # <<>>
  /\ \A i \in 1..(Len(bs) - 1) : IsHuman(bs[i]) # IsHuman(bs[i + 1])

\* the bodies with text, and the inputs whose blocks alternate and have text
TextBodies == { b \in Bodies : Trim(b) # <<>> }

AlternatingLists ==
  UNION { { [i \in 1..n |->
               Block(IF (i % 2 = 1) = first THEN HumanLabel ELSE AssistantLabel, f[i])] :
              first \in BOOLEAN, f \in [1..n -> TextBodies] } : n \in 1..MaxBlocks }
  \cup { bs \in LongLists : Alternating(bs) }

\* one chunk for each human block that an assistant block follows
RECURSIVE PairsOf(_)
PairsOf(bs) ==
  IF Len(bs) < 2 THEN <<>>
  ELSE IF IsHuman(bs[1]) /\ ~IsHuman(bs[2])
  THEN <<PairChunk(TextOf(bs[1]), TextOf(bs[2]))>> \o PairsOf(Tail(Tail(bs)))
  ELSE PairsOf(Tail(bs))

\* C32: for an input of alternating Human:/Assistant: blocks with text the
\* chunker emits one chunk for each complete pair of a human and the
\* assistant block after it, in the order of the input, and none for an
\* unanswered human block at the end; two calls on the same input give the
\* same chunks; an input without a role marker gives no chunk
C32_OneChunkPerPair ==
  \A r \in Reqs :
    req[r].pc = "chunked" =>
      /\ \A bs \in AlternatingLists :
           Render(bs) = req[r].args.content => req[r].chunks = PairsOf(bs)
      /\ req[r].args.content \in PlainInputs => req[r].chunks = <<>>
      /\ \A s \in Reqs :
           (req[s].pc = "chunked" /\ req[s].args.content = req[r].args.content) =>
             req[s].chunks = req[r].chunks

\* the chunker was called on a conversation that starts with an answer, goes
\* on with two exchanges and ends with a question, and emitted two chunks
C32_Witness ==
  \E bs \in AlternatingLists :
    /\ Len(bs) = 6
    /\ \A r \in Reqs :
         /\ req[r].pc = "chunked"
         /\ req[r].args.content = Render(bs)
         /\ Len(req[r].chunks) = 2

\* the human block nearest before block i, 0 when there is none
NearestHuman(bs, i) ==
  LET before == { j \in 1..(i - 1) : IsHuman(bs[j]) }
  IN IF before = {} THEN 0 ELSE CHOOSE j \in before : \A k \in before : k <= j

\* the conversations of blocks that make the content of request r
BlocksOf(r) == { bs \in BlockLists : Render(bs) = req[r].args.content }

\* C33: every chunk pairs the text of an assistant block with the text of
\* the human block nearest before it, and that human block has text: an
\* empty human block replaces the pending question, so that the answer after
\* it produces no chunk
C33_PairedWithNearestHuman ==
  \A r \in Reqs :
    req[r].pc = "chunked" =>
      \A bs \in BlocksOf(r) :
        \A c \in 1..Len(req[r].chunks) :
          \E i \in 1..Len(bs) :
            /\ ~IsHuman(bs[i])
            /\ NearestHuman(bs, i) # 0
            /\ TextOf(bs[NearestHuman(bs, i)]) # <<>>
            /\ req[r].chunks[c] =
                 PairChunk(TextOf(bs[NearestHuman(bs, i)]), TextOf(bs[i]))

\* the block has a buffered line: text on the line of its marker, or a
\* line after it
HasLines(b) ==
  \/ TextAfterRole(Head(SplitLines(RenderBlock(b)))) # <<>>
  \/ Len(SplitLines(RenderBlock(b))) > 1

\* the first assistant block with a buffered line among the blocks from i
\* on, 0 when there is none
RECURSIVE FirstWithLines(_, _)
FirstWithLines(bs, i) ==
  IF i > Len(bs) THEN 0
  ELSE IF HasLines(bs[i]) THEN i
  ELSE FirstWithLines(bs, i + 1)

\* a question and after it only assistant blocks, two or more
OneQuestion(bs) ==
  /\ Len(bs) >= 3
  /\ IsHuman(bs[1])
  /\ \A i \in 2..Len(bs) : ~IsHuman(bs[i])

Count(bs, P(_)) == Cardinality({ i \in 1..Len(bs) : P(bs[i]) })
IsAssistant(b) == ~IsHuman(b)
HumanWithText(b) == IsHuman(b) /\ TextOf(b) # <<>>
AssistantWithText(b) == ~IsHuman(b) /\ TextOf(b) # <<>>

\* C34: the pending question is cleared when it is paired, so a human block
\* is in at most one chunk: the chunks are no more than the human markers
\* and no more than the assistant markers (nor than the blocks of either
\* role that have text), and of the assistant blocks that follow one
\* question only the first one with a non-empty buffer is paired with it
C34_QuestionPairedOnce ==
  \A r \in Reqs :
    req[r].pc = "chunked" =>
      \A bs \in BlocksOf(r) :
        /\ Len(req[r].chunks) <= Count(bs, IsHuman)
        /\ Len(req[r].chunks) <= Count(bs, IsAssistant)
        /\ Len(req[r].chunks) <= Count(bs, HumanWithText)
        /\ Len(req[r].chunks) <= Count(bs, AssistantWithText)
        /\ OneQuestion(bs) =>
             LET i == FirstWithLines(bs, 2)
             IN req[r].chunks =
                  IF i # 0 /\ TextOf(bs[1]) # <<>> /\ TextOf(bs[i]) # <<>>
                  THEN <<PairChunk(TextOf(bs[1]), TextOf(bs[i]))>>
                  ELSE <<>>

\* the chunker was called on a question followed by two assistant blocks
\* with different texts and emitted the chunk of the first of them
C34_Witness ==
  \E r \in Reqs :
    /\ req[r].pc = "chunked"
    /\ \E bs \in BlocksOf(r) :
         /\ OneQuestion(bs)
         /\ TextOf(bs[2]) # <<>>
         /\ TextOf(bs[3]) # <<>>
         /\ TextOf(bs[3]) # TextOf(bs[2])
         /\ req[r].chunks = <<PairChunk(TextOf(bs[1]), TextOf(bs[2]))>>

\* C35: every chunk emitted for any input is the chunk of a question q and
\* an answer a that are the trimmed texts of a human block and of an
\* assistant block after it, both with text: its text is "Human: q", a line
\* break and "Assistant: a" with all of q, and its question field is the
\* first 200 characters of q; an input without a marker emits no chunk
C35_ChunkShape ==
  \A r \in Reqs :
    req[r].pc = "chunked" =>
      \A c \in 1..Len(req[r].chunks) :
        \E bs \in BlocksOf(r) :
          \E j \in 1..Len(bs), i \in 1..Len(bs) :
            /\ j < i
            /\ IsHuman(bs[j])
            /\ ~IsHuman(bs[i])
            /\ TextOf(bs[j]) # <<>> /\ Trim(TextOf(bs[j])) = TextOf(bs[j])
            /\ TextOf(bs[i]) # <<>> /\ Trim(TextOf(bs[i])) = TextOf(bs[i])
            /\ req[r].chunks[c] = PairChunk(TextOf(bs[j]), TextOf(bs[i]))

\* the chunker emitted a chunk for a question of more than 200 characters:
\* the question field has 200 of them and the text has them all
C35_Witness ==
  \E r \in Reqs :
    /\ req[r].pc = "chunked"
    /\ Len(req[r].chunks) = 1
    /\ Len(req[r].chunks[1].question) = 200
    /\ \E bs \in BlocksOf(r) :
         /\ Len(TextOf(bs[1])) > 200
         /\ req[r].chunks[1] = PairChunk(TextOf(bs[1]), TextOf(bs[2]))

\* the human entries of a conversation that have text and are no
\* interruption
HumanEntries(conv) ==
  { i \in 1..Len(conv) :
      /\ conv[i].type = "user"
      /\ extractTextContent(conv[i].content) # <<>>
      /\ ~Includes(extractTextContent(conv[i].content), InterruptMark) }

\* the first human entry of any kind after entry k, or the end
NextHuman(conv, k) ==
  LET later == { i \in (k + 1)..Len(conv) : conv[i].type = "user" }
  IN IF later = {} THEN Len(conv) + 1
     ELSE CHOOSE i \in later : \A j \in later : i <= j

\* the texts of the assistant entries from i up to entry n, in order
RECURSIVE TextsUpTo(_, _, _)
TextsUpTo(conv, i, n) ==
  IF i >= n THEN <<>>
  ELSE (IF conv[i].type = "assistant" /\ extractTextContent(conv[i].content) # <<>>
        THEN <<extractTextContent(conv[i].content)>> ELSE <<>>)
         \o TextsUpTo(conv, i + 1, n)

\* the answer cut to 2,000 characters and an ellipsis
CutAnswer(s) ==
  IF Len(s) > 2000 THEN SubSeq(s, 1, 2000) \o <<".", ".", ".">> ELSE s

AsItIs(s) == s

\* what run a has inserted, where Norm is what is done to the joined answer:
\* nothing without a human entry to pick or without an answer, else at most
\* one record, of the picked question and the answer, and one if the run
\* ended as indexed
InsertedPair(a, Norm(_)) ==
  LET conv == Conversation(aut[a].messages)
      humans == HumanEntries(conv)
      k == CHOOSE i \in humans : \A j \in humans : j <= i
      q == extractTextContent(conv[k].content)
      answer == Norm(Join(TextsUpTo(conv, k + 1, NextHuman(conv, k)), <<"\n">>))
  IN IF humans = {} \/ answer = <<>>
     THEN WrittenBy(a) = {} /\ aut[a].outcome = "skipped"
     ELSE /\ aut[a].outcome \in {"indexed", AutoCatch}
          /\ aut[a].outcome = "indexed" <=> Cardinality(WrittenBy(a)) = 1
          /\ aut[a].outcome = AutoCatch <=> WrittenBy(a) = {}
          /\ \A j \in WrittenBy(a) :
               /\ rows[j].doc.text =
                    <<"H","u","m","a","n",":"," ">> \o q
                      \o <<"\n","A","s","s","i","s","t","a","n","t",":"," ">>
                      \o CutAnswer(answer)
               /\ rows[j].doc.question =
                    (IF Len(q) <= 200 THEN q ELSE SubSeq(q, 1, 200))

\* run a is enabled, not re-entrant, has read its transcript and has ended
ExtractionDone(a) ==
  /\ aut[a].pc = "done"
  /\ aut[a].valid /\ ~aut[a].stop_hook_active /\ aut[a].auto_index
  /\ aut[a].transcript = "read"

\* C36 as stated: the run pairs the last human entry with text that is no
\* interruption with the texts of the assistant entries after it, up to the
\* next human entry of any kind or the end, joined by newline; no such
\* entry or an empty answer: nothing is inserted; the answer is cut to
\* 2,000 characters and an ellipsis, the question field to 200 characters
C36_PairAsJoined ==
  \A a \in Autos : ExtractionDone(a) => InsertedPair(a, AsItIs)

\* C36, amended: as above, with the joined answer trimmed before it is
\* tested for emptiness and cut
C36_PairAsJoinedAndTrimmed ==
  \A a \in Autos : ExtractionDone(a) => InsertedPair(a, Trim)

\* a run has indexed a transcript whose two answers have white space at
\* their ends: the record holds them joined by newline and trimmed
C36_Witness ==
  \E a \in Autos :
    /\ ExtractionDone(a)
    /\ aut[a].outcome = "indexed"
    /\ aut[a].messages = TranscriptPadded
    /\ \E j \in WrittenBy(a) :
         rows[j].doc.text =
           HumanPrefix \o <<"x">> \o AssistantPrefix \o <<"y", "\n", "z">>

\* the record is one the caller of a delete with arguments a names: its id
\* is one of the ids, or its project is the project, or its timestamp is
\* before the time bound, each value taken as the caller gave it
Named(a, doc) ==
  CASE DeleteBranch(a) = "ids" -> \E i \in 1..Len(a.ids.val) : doc.id = a.ids.val[i]
    [] DeleteBranch(a) = "project" -> doc.project = a.project
    [] DeleteBranch(a) = "before" -> LexLess(doc.timestamp, a.before)
    [] OTHER -> FALSE

\* the rows without those the caller names
RECURSIVE Unnamed(_, _)
Unnamed(rs, a) ==
  IF rs = <<>> THEN <<>>
  ELSE (IF Named(a, Head(rs).doc) THEN <<>> ELSE <<Head(rs)>>) \o Unnamed(Tail(rs), a)

\* C37: whatever quotes the ids, the project or the time bound of a delete
\* hold, the predicate built from them is a well-formed expression that
\* selects the records whose field compares to the value as given and no
\* other: the delete that is executed removes exactly the named records
C37_QuotesAreDoubled ==
  [][\A r \in Reqs :
       (req[r].pc = "del_exec" /\ req'[r] # req[r] /\ faults' = faults) =>
         /\ req'[r].pc = "del_count2"
         /\ rows' = Unnamed(rows, req[r].args)]_vars

\* a delete of the project x' has removed the record of that project and
\* left those of the projects x and y
C37_Witness ==
  \E r \in Reqs :
    /\ req[r].pc = "del_count2"
    /\ req[r].args.project = ProjectX \o Quote
    /\ Len(rows) = req[r].count - 1
    /\ \E j \in 1..Len(rows) : rows[j].doc.project = ProjectX
    /\ \E j \in 1..Len(rows) : rows[j].doc.project = ProjectY
    /\ \A j \in 1..Len(rows) : rows[j].doc.project # ProjectX \o Quote

========================================================================
